---- MODULE Spec2Model ----
(***************************************************************************)
(* Verification model of the french-flashcards trainers: the shared SRS    *)
(* stats engine (srs_core.py and its copies in conjugations.py and         *)
(* grammar.py), the quality prompts of the trainers, due selection and     *)
(* the daily session composer (exercise_types.py).                         *)
(*                                                                         *)
(* Dates.  date.today() is a day number counted from the date Epoch;       *)
(* isoformat() is modelled as the 10 character string "YYYY-MM-DD", kept   *)
(* as the sequence of its code points, and the comparisons the code makes  *)
(* on stored dates are comparisons of those strings.                       *)
(*                                                                         *)
(* Floats.  ease_factor is an IEEE-754 double.  A double x close to        *)
(* h/100 is kept exactly as the record [h, err] with                       *)
(*      x = h/100 + err * U,   U = 2^-56 / 25,                             *)
(* so that additions, the rounding to nearest-even and int(interval * x)   *)
(* are computed exactly with small integers.                               *)
(***************************************************************************)
EXTENDS Integers, Sequences, FiniteSets, TLC

(***************************************************************************)
(* Bounds of the model                                                     *)
(***************************************************************************)
MaxDay == 2
MaxReviews == 4
MaxTenses == 2
MaxTyped == 2
MaxStored == 3
MaxItems == 6
MaxNew == 6

\* the reviews the trainers record together in a run
MaxGraded == MaxReviews \div 2

(***************************************************************************)
(* Calendar and isoformat                                                  *)
(***************************************************************************)
\* day 0 of the model: two days before a change of month and year
Epoch == <<2024, 12, 30>>

DaysInMonth(y, m) ==
    IF m = 2 THEN (IF (y % 4 = 0 /\ y % 100 # 0) \/ y % 400 = 0 THEN 29 ELSE 28)
    ELSE IF m \in {4, 6, 9, 11} THEN 30 ELSE 31

RECURSIVE Normalize(_, _, _)
Normalize(y, m, d) ==
    IF d <= DaysInMonth(y, m) THEN <<y, m, d>>
    ELSE IF m = 12 THEN Normalize(y + 1, 1, d - DaysInMonth(y, m))
    ELSE Normalize(y, m + 1, d - DaysInMonth(y, m))

\* the code point of a decimal digit
Digit(n) == 48 + n

\* date.isoformat() of the day with the given number, date.today() +
\* timedelta(days = n) for the day number day + n: "YYYY-MM-DD" as code
\* points
isoformat(day) ==
    LET ymd == Normalize(Epoch[1], Epoch[2], Epoch[3] + day)
        y == ymd[1]
        m == ymd[2]
        d == ymd[3]
    IN  << Digit(y \div 1000), Digit((y \div 100) % 10), Digit((y \div 10) % 10),
           Digit(y % 10), 45, Digit(m \div 10), Digit(m % 10), 45,
           Digit(d \div 10), Digit(d % 10) >>

\* Python's str comparison: lexicographic on code points
RECURSIVE StrLess(_, _)
StrLess(s, t) ==
    IF t = <<>> THEN FALSE
    ELSE IF s = <<>> THEN TRUE
    ELSE IF Head(s) # Head(t) THEN Head(s) < Head(t)
    ELSE StrLess(Tail(s), Tail(t))

\* <= read as <
StrLessEq_Strict(s, t) == StrLess(s, t)

StrLessEq(s, t) == s = t \/ StrLess(s, t)

(***************************************************************************)
(* IEEE-754 double arithmetic of the ease factor                           *)
(***************************************************************************)
\* the literals 2.5 and 1.3 as doubles
EaseInit == [h |-> 250, err |-> 0]
EaseFloor == [h |-> 130, err |-> 80]

\* the real value of 0.1 - (3 - q) * (0.08 + (3 - q) * 0.02), in hundredths
EaseDeltaH(quality) == 10 - (3 - quality) * (8 + (3 - quality) * 2)

\* the rounding error of that expression evaluated in doubles, in units U
\* (0.1, 0.0, -0.13999999999999999, -0.32000000000000006, -0.7999999999999999)
EaseDeltaErr(quality) ==
    CASE quality = 3 -> 10
      [] quality = 2 -> 0
      [] quality = 1 -> 26
      [] quality = 0 -> -112
      [] quality = 12 -> 120
      [] OTHER -> 0

\* round the exact value h/100 + s*U (in [1, 4)) to the nearest double,
\* ties to even: an ulp u is 400 U below 2 and 800 U from 2 on, and
\* h/100 = h * 2^54 U, with 2^54 mod 1600 = 384
RoundDouble(h, s) ==
    LET u == IF h < 200 \/ (h = 200 /\ s < 0) THEN 400 ELSE 800
        t == ((h % (2 * u)) * (384 % (2 * u)) + s) % (2 * u)
        r == t % u
        adj == IF 2 * r < u THEN 0 - r
               ELSE IF 2 * r > u THEN u - r
               ELSE IF (t - r) % (2 * u) = 0 THEN 0 - r ELSE u - r
    IN  [h |-> h, err |-> s + adj]

EaseLess(a, b) == a.h < b.h \/ (a.h = b.h /\ a.err < b.err)

\* the ease update without the floor max(1.3, ...)
EaseUpdate_NoFloor(e, quality) ==
    RoundDouble(e.h + EaseDeltaH(quality), e.err + EaseDeltaErr(quality))

\* max(1.3, ease_factor + (0.1 - (3 - quality) * (0.08 + (3 - quality) * 0.02)))
EaseUpdate(e, quality) ==
    LET h == e.h + EaseDeltaH(quality)
        s == e.err + EaseDeltaErr(quality)
    IN  IF h < EaseFloor.h THEN EaseFloor
        ELSE LET n == RoundDouble(h, s)
             IN  IF EaseLess(n, EaseFloor) THEN EaseFloor ELSE n

RECURSIVE Log2(_)
Log2(n) == IF n < 2 THEN 0 ELSE 1 + Log2(n \div 2)

RECURSIVE Pow2(_)
Pow2(k) == IF k = 0 THEN 1 ELSE 2 * Pow2(k - 1)

\* int(interval * ease_factor): the double product, rounded to nearest,
\* then truncated
IntervalTimesEase(interval, e) ==
    LET p == interval * e.h
        n == p \div 100
        k == Log2(n)
        half == IF Pow2(k) = n THEN 100 * Pow2(k) ELSE 200 * Pow2(k)
    IN  IF p % 100 # 0 \/ interval * e.err >= 0 THEN n
        ELSE IF 0 - interval * e.err <= half THEN n
        ELSE n - 1

(***************************************************************************)
(* SRS stats engine                                                        *)
(***************************************************************************)
\* SRS intervals (in days)
INTERVALS == (0 :> 0) @@ (1 :> 1) @@ (2 :> 3) @@ (3 :> 7)

\* None, where a date string may stand: no string of the model is empty
None == <<>>

\* SRSStats.__init__ run on the given day
SRSStats(day) ==
    [ times_seen |-> 0,
      times_correct |-> 0,
      last_reviewed |-> None,
      interval |-> 0,
      ease_factor |-> EaseInit,
      due_date |-> isoformat(day) ]

\* SRSStats.update raises KeyError at INTERVALS[quality]
updateRaises(s, quality) ==
    /\ quality # 0
    /\ (IF quality > 0 THEN s.times_correct + 1 ELSE s.times_correct) = 1
    /\ quality \notin DOMAIN INTERVALS

\* update with the multiplication applied from the first correct review on
update_NoBootstrap(s, quality, day) ==
    LET seen == s.times_seen + 1
        correct == IF quality > 0 THEN s.times_correct + 1 ELSE s.times_correct
        ease == EaseUpdate(s.ease_factor, quality)
        interval == IF quality = 0 THEN 0
                    ELSE IntervalTimesEase(s.interval, ease)
    IN  [ times_seen |-> seen,
          times_correct |-> correct,
          last_reviewed |-> isoformat(day),
          interval |-> interval,
          ease_factor |-> ease,
          due_date |-> isoformat(day + interval) ]

\* update without the branch that resets the interval on quality 0
update_NoReset(s, quality, day) ==
    LET seen == s.times_seen + 1
        correct == IF quality > 0 THEN s.times_correct + 1 ELSE s.times_correct
        ease == EaseUpdate(s.ease_factor, quality)
        interval == IF correct = 1 THEN INTERVALS[quality]
                    ELSE IntervalTimesEase(s.interval, ease)
    IN  [ times_seen |-> seen,
          times_correct |-> correct,
          last_reviewed |-> isoformat(day),
          interval |-> interval,
          ease_factor |-> ease,
          due_date |-> isoformat(day + interval) ]

\* update adding the quality to times_correct instead of counting the review
update_AddsQuality(s, quality, day) ==
    LET seen == s.times_seen + 1
        correct == s.times_correct + quality
        ease == EaseUpdate(s.ease_factor, quality)
        interval == IF quality = 0 THEN 0
                    ELSE IF correct = 1 THEN INTERVALS[quality]
                    ELSE IntervalTimesEase(s.interval, ease)
    IN  [ times_seen |-> seen,
          times_correct |-> correct,
          last_reviewed |-> isoformat(day),
          interval |-> interval,
          ease_factor |-> ease,
          due_date |-> isoformat(day + interval) ]

\* update computing the due date before the new interval is known
update_StaleInterval(s, quality, day) ==
    LET seen == s.times_seen + 1
        correct == IF quality > 0 THEN s.times_correct + 1 ELSE s.times_correct
        ease == EaseUpdate(s.ease_factor, quality)
        interval == IF quality = 0 THEN 0
                    ELSE IF correct = 1 THEN INTERVALS[quality]
                    ELSE IntervalTimesEase(s.interval, ease)
    IN  [ times_seen |-> seen,
          times_correct |-> correct,
          last_reviewed |-> isoformat(day),
          interval |-> interval,
          ease_factor |-> ease,
          due_date |-> isoformat(day + s.interval) ]

\* update keeping a multiplied interval at one day or more
update_AtLeastOneDay(s, quality, day) ==
    LET seen == s.times_seen + 1
        correct == IF quality > 0 THEN s.times_correct + 1 ELSE s.times_correct
        ease == EaseUpdate(s.ease_factor, quality)
        product == IntervalTimesEase(s.interval, ease)
        interval == IF quality = 0 THEN 0
                    ELSE IF correct = 1 THEN INTERVALS[quality]
                    ELSE IF product < 1 THEN 1 ELSE product
    IN  [ times_seen |-> seen,
          times_correct |-> correct,
          last_reviewed |-> isoformat(day),
          interval |-> interval,
          ease_factor |-> ease,
          due_date |-> isoformat(day + interval) ]

\* update taking the table again whenever the interval has fallen to 0
\* an update that leaves the item due on the day of the review
update_DueOnReviewDay(s, quality, day) ==
    LET seen == s.times_seen + 1
        correct == IF quality > 0 THEN s.times_correct + 1 ELSE s.times_correct
        ease == EaseUpdate(s.ease_factor, quality)
        interval == IF quality = 0 THEN 0
                    ELSE IF correct = 1 THEN INTERVALS[quality]
                    ELSE IntervalTimesEase(s.interval, ease)
    IN  [ times_seen |-> seen,
          times_correct |-> correct,
          last_reviewed |-> isoformat(day),
          interval |-> interval,
          ease_factor |-> ease,
          due_date |-> isoformat(day) ]

update_TableAfterLapse(s, quality, day) ==
    LET seen == s.times_seen + 1
        correct == IF quality > 0 THEN s.times_correct + 1 ELSE s.times_correct
        ease == EaseUpdate(s.ease_factor, quality)
        interval == IF quality = 0 THEN 0
                    ELSE IF correct = 1 \/ s.interval = 0 THEN INTERVALS[quality]
                    ELSE IntervalTimesEase(s.interval, ease)
    IN  [ times_seen |-> seen,
          times_correct |-> correct,
          last_reviewed |-> isoformat(day),
          interval |-> interval,
          ease_factor |-> ease,
          due_date |-> isoformat(day + interval) ]

\* SRSStats.update(quality) run on the given day
update(s, quality, day) ==
    LET seen == s.times_seen + 1
        correct == IF quality > 0 THEN s.times_correct + 1 ELSE s.times_correct
        ease == EaseUpdate(s.ease_factor, quality)
        interval == IF quality = 0 THEN 0
                    ELSE IF correct = 1 THEN INTERVALS[quality]
                    ELSE IntervalTimesEase(s.interval, ease)
    IN  [ times_seen |-> seen,
          times_correct |-> correct,
          last_reviewed |-> isoformat(day),
          interval |-> interval,
          ease_factor |-> ease,
          due_date |-> isoformat(day + interval) ]

(***************************************************************************)
(* Source data and keys                                                    *)
(***************************************************************************)
Domains == {"Vocabulary", "Conjugation", "Grammar"}

\* f"{a}|{b}": the SRS key of a card, a verb-tense pair or a grammar exercise
MakeKey(a, b) == <<a, "|", b>>

Range(seq) == {seq[i] : i \in DOMAIN seq}

Prefix(seq, n) == SubSeq(seq, 1, IF n < Len(seq) THEN n ELSE Len(seq))

\* conjugation_engine.get_all_tenses(), cut to its first MaxTenses codes
get_all_tenses ==
    Prefix(<<"present", "future", "imparfait", "past",
             "near_future", "conditional", "conditional_past">>, MaxTenses)

\* the tenses of conjugations.get_due_combinations, cut likewise
TrainerTenses == Prefix(<<"present", "future", "past", "imparfait">>, MaxTenses)

\* for verb in verbs: for tense in tenses: key = f"{verb}|{tense}"
RECURSIVE VerbTenseKeys(_, _)
VerbTenseKeys(verbs, tenses) ==
    IF verbs = <<>> THEN <<>>
    ELSE [i \in DOMAIN tenses |-> MakeKey(Head(verbs), tenses[i])]
         \o VerbTenseKeys(Tail(verbs), tenses)

\* the keys the loaders of exercise_types enumerate from the source data:
\* CSV rows, verbs x tenses, exercises of the topic files
AllKeys(src, d) ==
    IF d = "Vocabulary"
    THEN [i \in DOMAIN src[d] |-> MakeKey(src[d][i].french, src[d][i].english)]
    ELSE IF d = "Conjugation" THEN VerbTenseKeys(src[d], get_all_tenses)
    ELSE [i \in DOMAIN src[d] |-> MakeKey(src[d][i].topic, src[d][i].id)]

EmptyStats == [k \in {} |-> None]

NoStats == [d \in Domains |-> EmptyStats]

\* master_vocabulary.csv, verbs.json and grammar_data/*.json of the model
CardData == << [french |-> "chat", english |-> "cat"],
               [french |-> "matou", english |-> "cat"],
               [french |-> "chien", english |-> "dog"] >>

VerbData == << "etre" >>

ExerciseData == << [topic |-> "articles", id |-> "1"] >>

\* one vocabulary card, nothing else
OneCard ==
    [d \in Domains |-> IF d = "Vocabulary" THEN Prefix(CardData, 1) ELSE <<>>]

(***************************************************************************)
(* Due selection                                                           *)
(***************************************************************************)
\* an exercise of the daily trainer: its type and its SRS key
Exercise(d, k) == [type_name |-> d, key |-> k]

\* the loaders without the due filter
LoaderDue_NoFilter(keys, st, day) == keys

\* the loaders of exercise_types: an item is skipped when
\*     stat and stat.due_date > today
LoaderDue(keys, st, day) ==
    SelectSeq(keys, LAMBDA k : ~(k \in DOMAIN st
                                 /\ StrLess(isoformat(day), st[k].due_date)))

\* _load_vocab_exercises, _load_conjugation_exercises and
\* _load_grammar_exercises: the due exercises of a domain
LoadExercises(src, d, st, day) ==
    LET due == LoaderDue(AllKeys(src, d), st, day)
    IN  [i \in DOMAIN due |-> Exercise(d, due[i])]

\* no --tense filter
NoTense == ""

RECURSIVE VerbTensePairs(_, _)
VerbTensePairs(verbs, tenses) ==
    IF verbs = <<>> THEN <<>>
    ELSE [i \in DOMAIN tenses |-> <<Head(verbs), tenses[i]>>]
         \o VerbTensePairs(Tail(verbs), tenses)

\* conjugations.get_due_combinations: the due (verb, tense) pairs
get_due_combinations(verb_list, st, filter_tense, day) ==
    LET tenses_to_check == IF filter_tense # NoTense THEN <<filter_tense>>
                           ELSE TrainerTenses
    IN  SelectSeq(VerbTensePairs(verb_list, tenses_to_check),
                  LAMBDA vt : LET key == MakeKey(vt[1], vt[2])
                              IN  IF key \notin DOMAIN st THEN TRUE
                                  ELSE StrLessEq(st[key].due_date, isoformat(day)))

\* grammar.get_due_exercises: the due exercises of a topic
get_due_exercises(exercises, topic_name, st, day) ==
    SelectSeq(exercises,
              LAMBDA ex : LET key == MakeKey(topic_name, ex.id)
                          IN  IF key \notin DOMAIN st THEN TRUE
                              ELSE StrLessEq(st[key].due_date, isoformat(day)))

\* flashcards.run_study_session: the due cards,
\*     stats.get(c.key, CardStats(c.key)).due_date <= today
DueCards(cards, st, day) ==
    SelectSeq(cards,
              LAMBDA c : LET key == MakeKey(c.french, c.english)
                             s == IF key \in DOMAIN st THEN st[key] ELSE SRSStats(day)
                         IN  StrLessEq(s.due_date, isoformat(day)))

(***************************************************************************)
(* Quality prompts                                                         *)
(***************************************************************************)
\* what is typed at a prompt: up to MaxTyped of these characters
Typed == UNION {[1..n -> {"0", "1", "2", "3", "4", " "}] : n \in 0..MaxTyped}

\* str.strip()
RECURSIVE lstrip(_)
lstrip(s) == IF s # <<>> /\ Head(s) = " " THEN lstrip(Tail(s)) ELSE s

RECURSIVE rstrip(_)
rstrip(s) ==
    IF s # <<>> /\ s[Len(s)] = " " THEN rstrip(SubSeq(s, 1, Len(s) - 1)) ELSE s

strip(s) == rstrip(lstrip(s))

\* str.lower(), on the letters the texts of the model are written with
lower(text) ==
    [i \in DOMAIN text |->
        CASE text[i] = "C" -> "c" [] text[i] = "A" -> "a" [] text[i] = "H" -> "h"
          [] OTHER -> text[i]]

\* int(choice) of a string of decimal digits
RECURSIVE int(_)
int(s) ==
    LET value(c) ==
           CHOOSE n \in 0..9 : <<"0", "1", "2", "3", "4", "5", "6", "7", "8", "9">>[n + 1] = c
    IN  IF s = <<>> THEN 0
        ELSE 10 * int(SubSeq(s, 1, Len(s) - 1)) + value(s[Len(s)])

\* conjugations.calculate_quality_from_score
calculate_quality_from_score(score, total) ==
    IF score = total THEN 3
    ELSE IF score >= total - 1 THEN 2
    ELSE IF score >= total \div 2 THEN 1
    ELSE 0

\* no quality is returned: the prompt is shown again
Reprompt == <<>>

\* one round of the loop of ask_quality_rating (conjugations.py, grammar.py):
\* <<quality>> returned for the typed text, or Reprompt
ask_quality_rating(suggested, text) ==
    LET choice == strip(text)
        \* choice in "0123": the substring test of Python's str
        InString(sub, whole) ==
           \E i \in 0..(Len(whole) - Len(sub)) : SubSeq(whole, i + 1, i + Len(sub)) = sub
    IN  IF choice = <<>> THEN <<suggested>>
        ELSE IF InString(choice, <<"0", "1", "2", "3">>) THEN <<int(choice)>>
        ELSE Reprompt

\* the qualities typing_question and the multiple choice of the vocabulary
\* trainer can return in each mode
StudyQualities(mode) ==
    CASE mode = "easy" -> {2, 0}
      [] mode = "medium" -> {3, 1, 0}
      [] mode = "hard" -> {3, 0}
      [] mode = "expert" -> {3, 2, 0}

\* The stats files.  A file is the JSON object save_stats writes: under
\* every key an object of six members, each member the text json.dump
\* prints for its value, as code points.

\* the decimal digits of a natural number
RECURSIVE DigitsOf(_)
DigitsOf(n) == IF n < 10 THEN <<Digit(n)>> ELSE DigitsOf(n \div 10) \o <<Digit(n % 10)>>

\* the natural number written by a sequence of digits
RECURSIVE ParseDigits(_)
ParseDigits(text) ==
    IF text = <<>> THEN 0
    ELSE 10 * ParseDigits(SubSeq(text, 1, Len(text) - 1)) + (text[Len(text)] - 48)

\* the position of the first code point c in text, 0 when there is none
RECURSIVE Find(_, _)
Find(text, c) ==
    IF text = <<>> THEN 0
    ELSE IF Head(text) = c THEN 1
    ELSE LET r == Find(Tail(text), c) IN IF r = 0 THEN 0 ELSE r + 1

\* json.dump of None
JsonNull == <<110, 117, 108, 108>>

\* SRSStats.to_dict
to_dict(s) ==
    [ times_seen |-> s.times_seen,
      times_correct |-> s.times_correct,
      last_reviewed |-> s.last_reviewed,
      interval |-> s.interval,
      ease_factor |-> s.ease_factor,
      due_date |-> s.due_date ]

\* data.get(member, default)
Get(data, member, default) == IF member \in DOMAIN data THEN data[member] ELSE default

\* from_dict that leaves ease_factor at the value of the constructor
from_dict_DefaultEase(key, data, day) ==
    [ times_seen |-> Get(data, "times_seen", 0),
      times_correct |-> Get(data, "times_correct", 0),
      last_reviewed |-> Get(data, "last_reviewed", None),
      interval |-> Get(data, "interval", 0),
      ease_factor |-> EaseInit,
      due_date |-> Get(data, "due_date", isoformat(day)) ]

\* SRSStats.from_dict(key, data), read on the given day
from_dict(key, data, day) ==
    [ times_seen |-> Get(data, "times_seen", 0),
      times_correct |-> Get(data, "times_correct", 0),
      last_reviewed |-> Get(data, "last_reviewed", None),
      interval |-> Get(data, "interval", 0),
      ease_factor |-> Get(data, "ease_factor", EaseInit),
      due_date |-> Get(data, "due_date", isoformat(day)) ]

\* json.dump of the dict to_dict returns: an int as its decimal digits,
\* None as null, a str without characters to escape in quotes, a float as
\* float.__repr__ prints it, the shortest decimal that reads back as the
\* same double.  That is the decimal h/100 ("2.5", "2.36", "3.0") for the
\* double nearest to it; for another double repr prints seventeen
\* significant digits, which are kept as the distance of the double from
\* the nearest one, in units U, after the mark "_"
json_dump(d) ==
    LET JsonInt(n) == IF n < 0 THEN <<45>> \o DigitsOf(0 - n) ELSE DigitsOf(n)
        JsonStr(text) == <<34>> \o text \o <<34>>
        ShortDecimal(h) ==
           DigitsOf(h \div 100) \o <<46>>
              \o (IF h % 10 = 0 THEN <<Digit((h % 100) \div 10)>>
                  ELSE <<Digit((h % 100) \div 10), Digit(h % 10)>>)
        JsonFloat(e) ==
           LET dev == e.err - RoundDouble(e.h, 0).err
           IN  IF dev = 0 THEN ShortDecimal(e.h)
               ELSE ShortDecimal(e.h) \o <<95>> \o JsonInt(dev)
    IN  [ times_seen |-> JsonInt(d.times_seen),
          times_correct |-> JsonInt(d.times_correct),
          last_reviewed |-> IF d.last_reviewed = None THEN JsonNull
                            ELSE JsonStr(d.last_reviewed),
          interval |-> JsonInt(d.interval),
          ease_factor |-> JsonFloat(d.ease_factor),
          due_date |-> JsonStr(d.due_date) ]

\* json.load of an object of the file: every member is null, a string, a
\* float (float(text), the double nearest to the decimal) or an int
json_load(object) ==
    LET ParseFloat(text) ==
           LET mark == Find(text, 95)
               decimal == IF mark = 0 THEN text ELSE SubSeq(text, 1, mark - 1)
               point == Find(decimal, 46)
               frac == SubSeq(decimal, point + 1, Len(decimal))
               h == 100 * ParseDigits(SubSeq(decimal, 1, point - 1))
                       + (IF Len(frac) = 1 THEN 10 * ParseDigits(frac)
                          ELSE ParseDigits(frac))
               tail == SubSeq(text, mark + 1, Len(text))
               dev == IF mark = 0 THEN 0
                      ELSE IF Head(tail) = 45 THEN 0 - ParseDigits(Tail(tail))
                      ELSE ParseDigits(tail)
           IN  [h |-> h, err |-> RoundDouble(h, 0).err + dev]
        JsonValue(text) ==
           IF text = JsonNull THEN None
           ELSE IF Head(text) = 34 THEN SubSeq(text, 2, Len(text) - 1)
           ELSE IF Find(text, 46) > 0 THEN ParseFloat(text)
           ELSE IF Head(text) = 45 THEN 0 - ParseDigits(Tail(text))
           ELSE ParseDigits(text)
    IN  [member \in DOMAIN object |-> JsonValue(object[member])]

\* save_stats(stats, file_path): the file written
save_stats(st) == [key \in DOMAIN st |-> json_dump(to_dict(st[key]))]

\* load_stats(file_path, stats_cls): the map read; a missing file is read
\* as the empty map
load_stats(file, day) == [key \in DOMAIN file |-> from_dict(key, json_load(file[key]), day)]

(***************************************************************************)
(* State                                                                   *)
(***************************************************************************)
VARIABLES
    today,      \* date.today(), as a day number
    items,      \* the source data of each domain: cards, verbs, exercises
    stats,      \* the stats map of each domain: key -> SRSStats
    quality,    \* the argument of the latest call of update, NoCall before
    pending,    \* the quality prompt a trainer is blocked on, or NoPrompt
    selection,  \* the latest due selection: what was enumerated and returned
    session,    \* the latest session composed by load_all_due
    saved,      \* the stats file of each domain: the JSON save_stats wrote last
    run,        \* the session a trainer is running: its list and position
    answer      \* the latest answer checked by VocabularyExercise.check

vars == <<today, items, stats, quality, pending, selection, session, saved, run,
          answer>>

\* no call of update yet
NoCall == 0 - 1

\* no prompt is open
NoPrompt == <<>>

\* no due selection has run
NoSelection == [by |-> "", domain |-> "", keys |-> <<>>, due |-> <<>>]

\* load_all_due has not run
NoSession ==
    [ composed |-> FALSE, max_items |-> 0, max_new |-> 0,
      prioritized |-> [d \in Domains |->
                         [overdue |-> {}, due_today |-> {}, new_items |-> {}]],
      base |-> [d \in Domains |-> {}],
      extra |-> {} ]

\* no answer has been checked
NoAnswer ==
    [ checked |-> FALSE, card |-> 0, direction |-> "", raw |-> <<>>,
      user_input |-> <<>>, variants |-> {}, correct |-> FALSE ]

\* no trainer is running a session
NoRun ==
    [ trainer |-> "", mode |-> "", exercises |-> <<>>, current_idx |-> 0,
      phase |-> "", wrong |-> {}, results |-> <<>>, hint |-> FALSE ]

\* the three stats files written from, and the maps read from, the maps
\* and files of the three domains
Files(st) == [d \in DOMAIN st |-> save_stats(st[d])]

Loaded(files, day) == [d \in DOMAIN files |-> load_stats(files[d], day)]

HasStats(d, k) == k \in DOMAIN stats[d]

\* a review that runs update twice on the entry
Reviewed_Twice(d, k, q) ==
    LET s == IF HasStats(d, k) THEN stats[d][k] ELSE SRSStats(today)
        keys == DOMAIN stats[d] \cup {k}
    IN  [stats EXCEPT ![d] = [j \in keys |->
                                 IF j = k THEN update(update(s, q, today), q, today)
                                 ELSE stats[d][j]]]

\* a review that first gives every key of the source data an entry
Reviewed_Prepopulated(d, k, q) ==
    LET keys == DOMAIN stats[d] \cup Range(AllKeys(items, d)) \cup {k}
        s == IF HasStats(d, k) THEN stats[d][k] ELSE SRSStats(today)
    IN  [stats EXCEPT ![d] = [j \in keys |->
                                 IF j = k THEN update(s, q, today)
                                 ELSE IF HasStats(d, j) THEN stats[d][j]
                                 ELSE SRSStats(today)]]

\* stats[key] = SRSStats(key) when the key is absent, then update(quality)
Reviewed(d, k, q) ==
    LET s == IF HasStats(d, k) THEN stats[d][k] ELSE SRSStats(today)
    IN  [stats EXCEPT ![d] = [j \in DOMAIN stats[d] \cup {k} |->
                                 IF j = k THEN update(s, q, today) ELSE stats[d][j]]]

TimesSeen(d, k) == IF HasStats(d, k) THEN stats[d][k].times_seen ELSE 0

\* the step runs update on the entry of key k
Updated(d, k) ==
    /\ k \in DOMAIN stats'[d]
    /\ stats'[d][k].times_seen = TimesSeen(d, k) + 1

(***************************************************************************)
(* The stats engine on its contract: qualities 0..3                        *)
(***************************************************************************)
Init ==
    /\ today = 0
    /\ items = OneCard
    /\ stats = NoStats
    /\ quality = NoCall
    /\ pending = NoPrompt
    /\ selection = NoSelection
    /\ session = NoSession
    /\ saved = Files(stats)
    /\ run = NoRun
    /\ answer = NoAnswer

\* one review of an item: the entry is created on the first review
Update(d, k, q) ==
    /\ TimesSeen(d, k) < MaxReviews
    /\ stats' = Reviewed(d, k, q)
    /\ quality' = q
    /\ UNCHANGED <<today, items, pending, selection, session, saved, run, answer>>

\* midnight passes
Tick ==
    /\ today < MaxDay
    /\ today' = today + 1
    /\ UNCHANGED <<items, stats, quality, pending, selection, session, saved, run, answer>>

Next ==
    \/ \E d \in Domains : \E k \in Range(AllKeys(items, d)) : \E q \in 0..3 :
          Update(d, k, q)
    \/ Tick

Spec == Init /\ [][Next]_vars

(***************************************************************************)
(* The stats engine started from any stored record                         *)
(***************************************************************************)
\* records as a stats file may hold them, consistent or not
StoredStats ==
    [ times_seen : {MaxReviews - 2, MaxReviews - 1},
      times_correct : {0, 1, 2},
      last_reviewed : {None, isoformat(0)},
      interval : {0, 3, 17},
      ease_factor : {EaseFloor, EaseInit, [h |-> 270, err |-> 320]},
      due_date : {isoformat(0), isoformat(5)} ]

InitAny ==
    /\ today = 0
    /\ items = OneCard
    /\ \E s \in StoredStats :
          stats = [d \in Domains |->
                      IF d = "Vocabulary"
                      THEN [k \in Range(AllKeys(OneCard, d)) |-> s]
                      ELSE EmptyStats]
    /\ quality = NoCall
    /\ pending = NoPrompt
    /\ selection = NoSelection
    /\ session = NoSession
    /\ saved = Files(stats)
    /\ run = NoRun
    /\ answer = NoAnswer

SpecAny == InitAny /\ [][Next]_vars

(***************************************************************************)
(* Properties of the stats engine                                          *)
(***************************************************************************)
\* the entries of the stats maps, as <<domain, key>>
StatKeys ==
    {dk \in {<<d, k>> : d \in Domains, k \in UNION {DOMAIN stats[e] : e \in Domains}} :
        HasStats(dk[1], dk[2])}

Stat(dk) == stats[dk[1]][dk[2]]

\* C1: the first update with quality 1, 2 or 3 of an entry that had no
\* review with quality > 0, whatever quality-0 updates came before, sets
\* interval to 1, 3 or 7 days
C1_FirstCorrectUsesTable ==
    [][\A d \in Domains : \A k \in DOMAIN stats'[d] :
          (Updated(d, k) /\ (~HasStats(d, k) \/ stats[d][k].times_correct = 0) /\ quality' \in {1, 2, 3})
             => stats'[d][k].interval =
                   (CASE quality' = 1 -> 1 [] quality' = 2 -> 3 [] quality' = 3 -> 7)]_vars

\* an entry whose first correct review came after a quality-0 review
C1_Witness ==
    \E dk \in StatKeys :
       /\ Stat(dk).times_seen >= 2
       /\ Stat(dk).times_correct = 1
       /\ quality \in {1, 2, 3}
       /\ Stat(dk).interval \in {1, 3, 7}

\* C2: from any stored record, update(0) leaves interval 0 and the due date
\* on the day of the update
C2_WrongResetsInterval ==
    [][\A d \in Domains : \A k \in DOMAIN stats'[d] :
          (Updated(d, k) /\ quality' = 0)
             => /\ stats'[d][k].interval = 0
                /\ stats'[d][k].due_date = isoformat(today)]_vars

\* update(0) has run on a record that had correct reviews and an interval
C2_Witness ==
    \E dk \in StatKeys :
       /\ quality = 0
       /\ Stat(dk).times_correct = 2
       /\ Stat(dk).times_seen = MaxReviews - 1
       /\ Stat(dk).interval = 0
       /\ Stat(dk).last_reviewed = isoformat(today)

\* C3: times_seen and times_correct never decrease, and
\* times_correct <= times_seen in every state
C3_CountersMonotone ==
    /\ [](\A dk \in StatKeys : /\ Stat(dk).times_correct <= Stat(dk).times_seen
                               /\ Stat(dk).times_correct >= 0)
    /\ [][\A d \in Domains : \A k \in DOMAIN stats[d] :
             /\ k \in DOMAIN stats'[d]
             /\ stats'[d][k].times_seen >= stats[d][k].times_seen
             /\ stats'[d][k].times_correct >= stats[d][k].times_correct]_vars

\* an entry reviewed three times, wrong and right
C3_Witness ==
    \E dk \in StatKeys : Stat(dk).times_seen = 3 /\ Stat(dk).times_correct \in {1, 2}

\* C4: ease_factor >= 1.3 always, and an update with quality 3, 2, 1, 0
\* sets it to max(1.3, old + d) for d = +0.10, 0, -0.14, -0.32 (to the
\* precision of a double, here 10^6 U < 10^-12); quality 2 leaves it as it
\* is and quality 3 raises it
C4_EaseFactorRule ==
    /\ [](\A dk \in StatKeys : ~EaseLess(Stat(dk).ease_factor, EaseFloor))
    /\ [][\A d \in Domains : \A k \in DOMAIN stats'[d] :
             (Updated(d, k) /\ quality' \in 0..3) =>
                LET old == IF HasStats(d, k) THEN stats[d][k].ease_factor ELSE EaseInit
                    new == stats'[d][k].ease_factor
                    delta == CASE quality' = 3 -> 10 [] quality' = 2 -> 0
                               [] quality' = 1 -> -14 [] quality' = 0 -> -32
                IN  /\ new.h = (IF old.h + delta > 130 THEN old.h + delta ELSE 130)
                    /\ new.err < 1000000 /\ new.err > -1000000
                    /\ quality' = 2 => new = old
                    /\ quality' = 3 => new.h > old.h
                    /\ quality' < 2 => ~EaseLess(old, new)]_vars

\* an update with quality 0 that ran into the floor
C4_Witness ==
    \E dk \in StatKeys :
       /\ quality = 0
       /\ Stat(dk).ease_factor = EaseFloor
       /\ Stat(dk).times_seen = 4

\* C22: over the life of an entry the table is taken by exactly one
\* update, the one that makes times_correct 1; every later update with
\* quality 1, 2 or 3 sets interval to int(previous interval * new
\* ease_factor), the product of doubles truncated, also when quality-0
\* updates came in between
C22_TableTakenOnce ==
    [][\A d \in Domains : \A k \in DOMAIN stats'[d] :
          (Updated(d, k) /\ quality' \in {1, 2, 3}) =>
             LET before == IF HasStats(d, k) THEN stats[d][k] ELSE SRSStats(today)
                 after == stats'[d][k]
             IN  /\ after.times_correct = before.times_correct + 1
                 /\ before.times_correct = 0 => after.interval = INTERVALS[quality']
                 /\ before.times_correct >= 1 =>
                       /\ after.times_correct >= 2
                       /\ after.interval
                             = IntervalTimesEase(before.interval, after.ease_factor)]_vars

\* an entry reviewed correct, then wrong, then correct: the last update
\* multiplied the interval 0
C22_Witness ==
    \E dk \in StatKeys :
       /\ quality \in {1, 2, 3}
       /\ Stat(dk).times_seen = 3
       /\ Stat(dk).times_correct = 2
       /\ Stat(dk).interval = 0

\* C23: an entry with a correct review and interval 0 stays there: every
\* later update, of any quality, leaves interval 0 and the due date on the
\* day of the update, and on every day the entry is due
C23_LapsedStaysDue ==
    /\ [](\A dk \in StatKeys :
             (Stat(dk).times_correct >= 1 /\ Stat(dk).interval = 0)
                => StrLessEq(Stat(dk).due_date, isoformat(today)))
    /\ [][\A d \in Domains : \A k \in DOMAIN stats[d] :
             (Updated(d, k) /\ stats[d][k].times_correct >= 1 /\ stats[d][k].interval = 0)
                => /\ stats'[d][k].interval = 0
                   /\ stats'[d][k].due_date = isoformat(today)
                   /\ stats'[d][k].times_correct >= 1]_vars

\* an entry reviewed correct, wrong, and then twice correct, on the last
\* day: its interval is still 0 and it is due
C23_Witness ==
    \E dk \in StatKeys :
       /\ today = MaxDay
       /\ quality \in {1, 2, 3}
       /\ Stat(dk).times_seen = 4
       /\ Stat(dk).times_correct = 3
       /\ Stat(dk).interval = 0
       /\ Stat(dk).due_date = isoformat(today)

(***************************************************************************)
(* The trainers: daily trainer, vocabulary, conjugation and grammar --srs  *)
(***************************************************************************)
\* the reviews recorded under the given entries
RECURSIVE SumSeen(_)
SumSeen(S) ==
    IF S = {} THEN 0
    ELSE LET dk == CHOOSE x \in S : TRUE
         IN  Stat(dk).times_seen + SumSeen(S \ {dk})

\* one card, one verb and one grammar exercise
InitTrainers ==
    /\ today = 0
    /\ items = [d \in Domains |-> IF d = "Vocabulary" THEN Prefix(CardData, 1)
                                  ELSE IF d = "Conjugation" THEN VerbData
                                  ELSE ExerciseData]
    /\ stats = NoStats
    /\ quality = NoCall
    /\ pending = NoPrompt
    /\ selection = NoSelection
    /\ session = NoSession
    /\ saved = Files(stats)
    /\ run = NoRun
    /\ answer = NoAnswer

\* daily trainer, ExerciseScreen.on_answer_submitted: an exercise of the
\* session is answered, graded and its stats updated and saved
DailyAnswer(ex, correct) ==
    /\ pending = NoPrompt
    /\ SumSeen(StatKeys) < MaxGraded
    /\ quality' = (IF correct THEN 2 ELSE 0)
    /\ stats' = Reviewed(ex.type_name, ex.key, quality')
    /\ saved' = [saved EXCEPT ![ex.type_name] = save_stats(stats'[ex.type_name])]
    /\ UNCHANGED <<today, items, pending, selection, session, run, answer>>

\* vocabulary trainer, run_study_session with --srs: a due card is asked
\* and its stats updated; the stats are saved when the loop over the cards
\* ends
StudyCard(card, mode, q) ==
    /\ pending = NoPrompt
    /\ SumSeen(StatKeys) < MaxGraded
    /\ quality' = q
    /\ stats' = Reviewed("Vocabulary", MakeKey(card.french, card.english), q)
    /\ UNCHANGED <<today, items, pending, selection, session, saved, run, answer>>

\* conjugation trainer with --srs: a due combination is asked (ask_one_verb
\* returns score, 6) and the quality prompt opens
AskOneVerb(vt, score) ==
    /\ pending = NoPrompt
    /\ SumSeen(StatKeys) < MaxGraded
    /\ pending' = << [ trainer |-> "Conjugation",
                       key |-> MakeKey(vt[1], vt[2]),
                       suggested |-> calculate_quality_from_score(score, 6) ] >>
    /\ UNCHANGED <<today, items, stats, quality, selection, session, saved, run, answer>>

\* grammar trainer with --srs: a due exercise is asked and the quality
\* prompt opens, suggesting 3 if correct else 0
AskOneExercise(ex, correct) ==
    /\ pending = NoPrompt
    /\ SumSeen(StatKeys) < MaxGraded
    /\ pending' = << [ trainer |-> "Grammar",
                       key |-> MakeKey(ex.topic, ex.id),
                       suggested |-> IF correct THEN 3 ELSE 0 ] >>
    /\ UNCHANGED <<today, items, stats, quality, selection, session, saved, run, answer>>

\* a line is typed at the quality prompt of the conjugation or grammar
\* trainer: the prompt is repeated, or update runs with the quality returned
\* and the stats are saved; a KeyError raised by update ends the process
\* with the stats as they were saved last
RateQuality(text) ==
    /\ pending # NoPrompt
    /\ LET p == pending[1]
           r == ask_quality_rating(p.suggested, text)
           s == IF HasStats(p.trainer, p.key) THEN stats[p.trainer][p.key]
                ELSE SRSStats(today)
       IN  IF r = Reprompt THEN UNCHANGED <<stats, quality, pending, saved>>
           ELSE /\ quality' = r[1]
                /\ pending' = NoPrompt
                /\ stats' = IF updateRaises(s, r[1]) THEN stats
                            ELSE Reviewed(p.trainer, p.key, r[1])
                /\ saved' = IF updateRaises(s, r[1]) THEN saved
                            ELSE [saved EXCEPT ![p.trainer] = save_stats(stats'[p.trainer])]
    /\ UNCHANGED <<today, items, selection, session, run, answer>>

NextTrainers ==
    \/ \E d \in Domains :
          \E ex \in Range(LoadExercises(items, d, stats[d], today)) :
             \E correct \in BOOLEAN : DailyAnswer(ex, correct)
    \/ \E card \in Range(DueCards(items["Vocabulary"], stats["Vocabulary"], today)) :
          \E mode \in {"easy", "medium", "hard", "expert"} :
             \E q \in StudyQualities(mode) : StudyCard(card, mode, q)
    \/ \E filter_tense \in {NoTense} \cup Range(TrainerTenses) :
          \E vt \in Range(get_due_combinations(items["Conjugation"],
                                               stats["Conjugation"], filter_tense, today)) :
             \E score \in 0..6 : AskOneVerb(vt, score)
    \/ \E topic \in {items["Grammar"][i].topic : i \in DOMAIN items["Grammar"]} :
          \E ex \in Range(get_due_exercises(
                             SelectSeq(items["Grammar"], LAMBDA e : e.topic = topic),
                             topic, stats["Grammar"], today)) :
             \E correct \in BOOLEAN : AskOneExercise(ex, correct)
    \/ \E text \in Typed : RateQuality(text)
    \/ Tick

SpecTrainers == InitTrainers /\ [][NextTrainers]_vars

\* C5: an entry's due date is the day of its last review plus its interval,
\* and a step that changes a due date sets it to the day of the step plus
\* the new interval
C5_DueDateDerived ==
    /\ [](\A dk \in StatKeys :
             Stat(dk).last_reviewed # None =>
                \E day \in 0..MaxDay :
                   /\ Stat(dk).last_reviewed = isoformat(day)
                   /\ Stat(dk).due_date = isoformat(day + Stat(dk).interval))
    /\ [][\A d \in Domains : \A k \in DOMAIN stats'[d] :
             (~HasStats(d, k) \/ stats'[d][k].due_date # stats[d][k].due_date)
                => /\ stats'[d][k].due_date = isoformat(today + stats'[d][k].interval)
                   /\ stats'[d][k].last_reviewed = isoformat(today)]_vars

\* an entry reviewed on an earlier day and due after that day
C5_Witness ==
    \E dk \in StatKeys :
       /\ Stat(dk).interval > 0
       /\ Stat(dk).last_reviewed # isoformat(today)
       /\ Stat(dk).due_date = isoformat(today - 1 + Stat(dk).interval)

\* C6: update is only ever called with a quality in {0, 1, 2, 3}
C6_QualityInRange == quality \in {NoCall, 0, 1, 2, 3}

(***************************************************************************)
(* Due selection on stored stats                                           *)
(***************************************************************************)
\* the three cards, the verb and the grammar exercise
DueSource ==
    [d \in Domains |-> IF d = "Vocabulary" THEN CardData
                       ELSE IF d = "Conjugation" THEN VerbData
                       ELSE ExerciseData]

\* a record created and reviewed once on the given day
ReviewedOnce(day, q) == update(SRSStats(day), q, day)

\* records due on day 0, day 1 and day 2
StoredRecords == {ReviewedOnce(0, 0), ReviewedOnce(0, 1), ReviewedOnce(1, 1)}

\* one stats file holds records, read on day 1 or later, under keys the
\* loader and the trainer of the domain write and one of an item since
\* removed from the source data
InitDue ==
    /\ today \in 1..MaxDay
    /\ items = DueSource
    /\ LET StoredKeys(d) ==
              IF d = "Vocabulary"
              THEN Range(AllKeys(DueSource, d)) \cup {MakeKey("loup", "wolf")}
              ELSE IF d = "Conjugation"
              THEN Range(AllKeys(DueSource, d))
                      \cup Range(VerbTenseKeys(VerbData, TrainerTenses))
              ELSE Range(AllKeys(DueSource, d)) \cup {MakeKey("articles", "2")}
       IN  \E d \in Domains : \E K \in SUBSET StoredKeys(d) : \E f \in [K -> StoredRecords] :
              stats = [e \in Domains |-> IF e = d THEN f ELSE EmptyStats]
    /\ quality = NoCall
    /\ pending = NoPrompt
    /\ selection = NoSelection
    /\ session = NoSession
    /\ saved = Files(stats)
    /\ run = NoRun
    /\ answer = NoAnswer

\* _load_vocab_exercises, _load_conjugation_exercises or
\* _load_grammar_exercises returns the due exercises of its domain
LoadPool(d) ==
    /\ LET exercises == LoadExercises(items, d, stats[d], today)
       IN  selection' = [ by |-> "loader", domain |-> d,
                          keys |-> AllKeys(items, d),
                          due |-> [i \in DOMAIN exercises |-> exercises[i].key] ]
    /\ UNCHANGED <<today, items, stats, quality, pending, session, saved, run, answer>>

\* the conjugation trainer with --srs calls get_due_combinations
GetDueCombinations(filter_tense) ==
    /\ LET verb_list == items["Conjugation"]
           due == get_due_combinations(verb_list, stats["Conjugation"], filter_tense, today)
       IN  selection' = [ by |-> "get_due_combinations", domain |-> "Conjugation",
                          keys |-> VerbTenseKeys(verb_list,
                                      IF filter_tense # NoTense THEN <<filter_tense>>
                                      ELSE TrainerTenses),
                          due |-> [i \in DOMAIN due |-> MakeKey(due[i][1], due[i][2])] ]
    /\ UNCHANGED <<today, items, stats, quality, pending, session, saved, run, answer>>

\* the grammar trainer with --srs calls get_due_exercises on a topic
GetDueExercises(topic_name) ==
    /\ LET exercises == SelectSeq(items["Grammar"], LAMBDA e : e.topic = topic_name)
           due == get_due_exercises(exercises, topic_name, stats["Grammar"], today)
       IN  selection' = [ by |-> "get_due_exercises", domain |-> "Grammar",
                          keys |-> [i \in DOMAIN exercises |->
                                       MakeKey(topic_name, exercises[i].id)],
                          due |-> [i \in DOMAIN due |-> MakeKey(topic_name, due[i].id)] ]
    /\ UNCHANGED <<today, items, stats, quality, pending, session, saved, run, answer>>

NextDue ==
    \/ \E d \in Domains : LoadPool(d)
    \/ \E filter_tense \in {NoTense} \cup Range(TrainerTenses) :
          GetDueCombinations(filter_tense)
    \/ \E topic_name \in {items["Grammar"][i].topic : i \in DOMAIN items["Grammar"]} :
          GetDueExercises(topic_name)

SpecDue == InitDue /\ [][NextDue]_vars

\* C7: a due selection returns exactly the keys it enumerated that have no
\* stats entry or a due date on or before today: a key without stats, due
\* yesterday or due today is returned, a key due tomorrow is not, and no
\* key outside the enumerated ones is
C7_DueSelectionExact ==
    selection # NoSelection =>
       LET st == stats[selection.domain]
       IN  Range(selection.due) =
              { k \in Range(selection.keys) :
                   \/ k \notin DOMAIN st
                   \/ \E day \in 0..today : st[k].due_date = isoformat(day) }

\* a selection over a key without stats, a key due yesterday, a key due
\* tomorrow and a stored key that is not enumerated
C7_Witness ==
    /\ selection # NoSelection
    /\ LET st == stats[selection.domain]
           all == Range(selection.keys)
           due == Range(selection.due)
       IN  /\ \E k \in all : k \notin DOMAIN st /\ k \in due
           /\ \E k \in all \cap DOMAIN st :
                 st[k].due_date = isoformat(today - 1) /\ k \in due
           /\ \E k \in all \cap DOMAIN st :
                 st[k].due_date = isoformat(today + 1) /\ k \notin due
           /\ \E k \in DOMAIN st \ all :
                 st[k].due_date = isoformat(today) /\ k \notin due

(***************************************************************************)
(* The daily session composer: load_all_due and _balanced_sample           *)
(***************************************************************************)
Max(a, b) == IF a > b THEN a ELSE b

Min(a, b) == IF a < b THEN a ELSE b

\* for name, loader in [...]: the order in which the pools are read
TypeOrder == <<"Vocabulary", "Conjugation", "Grammar">>

\* the first n items of a list after random.shuffle: any n of its items,
\* all of them when it has no more than n
RECURSIVE ShuffledPrefix(_, _)
ShuffledPrefix(S, n) ==
    IF n <= 0 THEN {{}}
    ELSE IF Cardinality(S) <= n THEN {S}
    ELSE LET x == CHOOSE y \in S : TRUE
         IN  ShuffledPrefix(S \ {x}, n)
                \cup {T \cup {x} : T \in ShuffledPrefix(S \ {x}, n - 1)}

\* the exercises a loader returns
Pool(d) == Range(LoadExercises(items, d, stats[d], today))

\* the exercises of a pool load_all_due sorts into new_items, those
\* without a stats entry
NewItems(d) == {ex \in Pool(d) : ~HasStats(d, ex.key)}

\* new_cap = max(1, max_new // max(1, len(type_pools)))
new_cap(max_new) == Max(1, max_new \div Max(1, Len(TypeOrder)))

\* the slice without the cap on the total
NewSlots_PerTypeOnly(max_new, total_new) == new_cap(max_new)

\* the slice by the total alone
NewSlots_TotalOnly(max_new, total_new) == Max(0, max_new - total_new)

\* min(new_cap, remaining_new), remaining_new = max(0, max_new - total_new)
NewSlots(max_new, total_new) == Min(new_cap(max_new), Max(0, max_new - total_new))

\* len(new_items) of the i-th pool after the slice, and total_new after it
RECURSIVE TotalNew(_, _)
NewTaken(i, max_new) ==
    Min(Cardinality(NewItems(TypeOrder[i])), NewSlots(max_new, TotalNew(i - 1, max_new)))

TotalNew(i, max_new) ==
    IF i = 0 THEN 0 ELSE TotalNew(i - 1, max_new) + NewTaken(i, max_new)

\* per_type rounded up instead of down
per_type_RoundedUp(budget, n_types) == (budget + n_types - 1) \div n_types

\* the quotient of the budget by the three types, whatever number of them
\* has items
per_type_AllTypes(budget, n_types) == budget \div Len(TypeOrder)

\* per_type = budget // n_types
per_type(budget, n_types) == budget \div n_types

\* the session load_all_due(max_items, max_new) returns, with the lists it
\* was built from.  Every random.shuffle followed by a slice is the choice
\* of the items the slice keeps; the session is kept as the sets of
\* exercises taken per type and from the leftover pool, the order the final
\* random.shuffle gives it is not.
load_all_due(max_items, max_new) ==
    \E overdue \in {[d \in Domains |->
                       {ex \in Pool(d) :
                           /\ HasStats(d, ex.key)
                           /\ StrLess(stats[d][ex.key].due_date, isoformat(today))}]} :
    \E due_today \in {[d \in Domains |->
                         {ex \in Pool(d) :
                             /\ HasStats(d, ex.key)
                             /\ ~StrLess(stats[d][ex.key].due_date, isoformat(today))}]} :
    \E new \in {[d \in Domains |-> NewItems(d)]} :
    \E taken \in {[i \in DOMAIN TypeOrder |-> NewTaken(i, max_new)]} :
        \E nv \in ShuffledPrefix(new[TypeOrder[1]], taken[1]) :
        \E nc \in ShuffledPrefix(new[TypeOrder[2]], taken[2]) :
        \E ng \in ShuffledPrefix(new[TypeOrder[3]], taken[3]) :
        \E prioritized \in {[d \in Domains |->
                               [ overdue |-> overdue[d],
                                 due_today |-> due_today[d],
                                 new_items |-> IF d = TypeOrder[1] THEN nv
                                               ELSE IF d = TypeOrder[2] THEN nc
                                               ELSE ng ]]} :
        \E exs \in {[d \in Domains |-> prioritized[d].overdue
                                          \cup prioritized[d].due_today
                                          \cup prioritized[d].new_items]} :
           LET types_with_items == {d \in Domains : exs[d] # {}}
               n_types == Cardinality(types_with_items)
           IN  IF types_with_items = {}
               THEN session' = [ composed |-> TRUE,
                                 max_items |-> max_items, max_new |-> max_new,
                                 prioritized |-> prioritized,
                                 base |-> [d \in Domains |-> {}],
                                 extra |-> {} ]
               ELSE \E bv \in ShuffledPrefix(exs[TypeOrder[1]],
                                             per_type(max_items, n_types)) :
                    \E bc \in ShuffledPrefix(exs[TypeOrder[2]],
                                             per_type(max_items, n_types)) :
                    \E bg \in ShuffledPrefix(exs[TypeOrder[3]],
                                             per_type(max_items, n_types)) :
                    \E base \in {(TypeOrder[1] :> bv) @@ (TypeOrder[2] :> bc)
                                    @@ (TypeOrder[3] :> bg)} :
                    \E extra \in ShuffledPrefix(UNION {exs[d] \ base[d] : d \in Domains},
                                                max_items % n_types) :
                       session' = [ composed |-> TRUE,
                                    max_items |-> max_items,
                                    max_new |-> max_new,
                                    prioritized |-> prioritized,
                                    base |-> base,
                                    extra |-> extra ]

\* one session is composed per run
LoadAllDue(max_items, max_new) ==
    /\ ~session.composed
    /\ load_all_due(max_items, max_new)
    /\ UNCHANGED <<today, items, stats, quality, pending, selection, saved, run, answer>>

\* the source data of the composer: three cards, the verb, two exercises
ComposeSource ==
    [d \in Domains |-> IF d = "Vocabulary" THEN CardData
                       ELSE IF d = "Conjugation" THEN VerbData
                       ELSE ExerciseData \o << [topic |-> "articles", id |-> "2"] >>]

\* the records a stats file may hold, earliest due date first
StoredList == <<ReviewedOnce(0, 0), ReviewedOnce(0, 1), ReviewedOnce(1, 1)>>

\* n records, earliest due date first
Laid(n) == {s \in [1..n -> DOMAIN StoredList] : \A i, j \in 1..n : i < j => s[i] <= s[j]}

\* the stats file of a domain with the records s on the first keys of the
\* source: the composer reads no key, only whether a key has a record and
\* its due date
LaidStats(d, s) ==
    LET keys == AllKeys(ComposeSource, d)
    IN  [k \in {keys[i] : i \in DOMAIN s} |->
            StoredList[s[CHOOSE i \in DOMAIN s : keys[i] = k]]]

\* the stats files hold at most MaxStored records, read on day 1
InitCompose ==
    /\ today = 1
    /\ items = ComposeSource
    /\ \E n \in [Domains -> 0..MaxStored] :
          /\ n[TypeOrder[1]] + n[TypeOrder[2]] + n[TypeOrder[3]] <= MaxStored
          /\ \A d \in Domains : n[d] <= Len(AllKeys(ComposeSource, d))
          /\ \E sv \in Laid(n[TypeOrder[1]]) : \E sc \in Laid(n[TypeOrder[2]]) :
             \E sg \in Laid(n[TypeOrder[3]]) :
                stats = (TypeOrder[1] :> LaidStats(TypeOrder[1], sv))
                           @@ (TypeOrder[2] :> LaidStats(TypeOrder[2], sc))
                           @@ (TypeOrder[3] :> LaidStats(TypeOrder[3], sg))
    /\ quality = NoCall
    /\ pending = NoPrompt
    /\ selection = NoSelection
    /\ session = NoSession
    /\ saved = Files(stats)
    /\ run = NoRun
    /\ answer = NoAnswer

NextCompose ==
    \E max_items \in 0..MaxItems : \E max_new \in 0..MaxNew :
       LoadAllDue(max_items, max_new)

SpecCompose == InitCompose /\ [][NextCompose]_vars

\* the exercises of the session and its length
SessionExercises == UNION {session.base[d] : d \in Domains} \cup session.extra

SessionLength ==
    Cardinality(session.base[TypeOrder[1]]) + Cardinality(session.base[TypeOrder[2]])
       + Cardinality(session.base[TypeOrder[3]]) + Cardinality(session.extra)

\* C8: the session returned by load_all_due has at most max_items exercises
C8_SessionWithinBudget ==
    session.composed => SessionLength <= session.max_items

\* a session that fills its budget while more exercises are due
C8_Witness ==
    /\ session.composed
    /\ session.max_items >= Len(TypeOrder)
    /\ SessionLength = session.max_items
    /\ session.extra # {}
    /\ \E d \in Domains : \E ex \in session.prioritized[d].overdue : ex \notin SessionExercises

\* C9: every exercise of a composed session is due when the session is
\* composed: its key has no stats entry or a due date on or before today
C9_SessionItemsDue ==
    session.composed =>
       \A ex \in SessionExercises :
          \/ ~HasStats(ex.type_name, ex.key)
          \/ \E day \in 0..today : stats[ex.type_name][ex.key].due_date = isoformat(day)

\* a session with room left that holds an overdue exercise and leaves out
\* the one due tomorrow
C9_Witness ==
    /\ session.composed
    /\ SessionLength < session.max_items
    /\ \E ex \in SessionExercises :
          /\ HasStats(ex.type_name, ex.key)
          /\ stats[ex.type_name][ex.key].due_date = isoformat(today - 1)
    /\ \E dk \in StatKeys :
          /\ Stat(dk).due_date = isoformat(today + 1)
          /\ Exercise(dk[1], dk[2]) \notin SessionExercises

\* the new exercises of the session, of one domain
SessionNew(d) ==
    {ex \in SessionExercises : ex.type_name = d /\ ~HasStats(d, ex.key)}

\* C10: the session holds at most max_new new items over the three domains;
\* when the pools hold new items only, each at least its share
\* max(1, max_new \div 3) of them, and the budget max_items is no smaller
\* than max_new (as the defaults 60 and 10), the counts of new items of any
\* two domains differ by at most one
C10_NewItemsCapped ==
    session.composed =>
       /\ Cardinality(SessionNew(TypeOrder[1])) + Cardinality(SessionNew(TypeOrder[2]))
             + Cardinality(SessionNew(TypeOrder[3])) <= session.max_new
       /\ ( /\ session.max_items >= session.max_new
            /\ \A d \in Domains :
                  /\ DOMAIN stats[d] = {}
                  /\ Cardinality(NewItems(d)) >= Max(1, session.max_new \div 3) )
          => \A d, e \in Domains :
                Cardinality(SessionNew(d)) - Cardinality(SessionNew(e)) <= 1

\* new items only, a cap of two per domain reached in each, and a new card
\* left out
C10_Witness ==
    /\ session.composed
    /\ session.max_new \div 3 = 2
    /\ session.max_items >= session.max_new
    /\ \A d \in Domains : DOMAIN stats[d] = {} /\ Cardinality(SessionNew(d)) = 2
    /\ \E ex \in NewItems(TypeOrder[1]) : ex \notin SessionExercises

\* prioritized_by_type[type_name] = overdue + due_today + new_items
Prioritized(d) ==
    session.prioritized[d].overdue \cup session.prioritized[d].due_today
       \cup session.prioritized[d].new_items

\* types_with_items of _balanced_sample
TypesWithItems == {d \in Domains : Prioritized(d) # {}}

\* C11: when the prioritized list of a domain is longer than its slot budget
\* floor(max_items / number of domains with items), the base allocation
\* takes the front of the list: no due-today or new item of the domain is in
\* it while an overdue item of the domain is left out of it, and no new item
\* while a due-today item is left out
C11_BaseTakesFront ==
    session.composed =>
       \A d \in TypesWithItems :
          Cardinality(Prioritized(d)) > session.max_items \div Cardinality(TypesWithItems)
          => /\ session.prioritized[d].overdue \subseteq session.base[d]
                \/ session.base[d] \subseteq session.prioritized[d].overdue
             /\ session.prioritized[d].due_today \subseteq session.base[d]
                \/ session.base[d] \cap session.prioritized[d].new_items = {}

\* C12: a domain whose prioritized list has at most
\* floor(max_items / number of domains with items) items has all of them in
\* the session, whatever the other domains hold
C12_SmallPoolsKept ==
    session.composed =>
       \A d \in TypesWithItems :
          Cardinality(Prioritized(d)) <= session.max_items \div Cardinality(TypesWithItems)
          => Prioritized(d) \subseteq SessionExercises

\* two vocabulary items of three taken, and the only two conjugation items
\* both in the session
C12_Witness ==
    /\ session.composed
    /\ TypesWithItems # {}
    /\ session.max_items \div Cardinality(TypesWithItems) = 2
    /\ Cardinality(Prioritized(TypeOrder[1])) = 3
    /\ Cardinality(Prioritized(TypeOrder[1]) \cap SessionExercises) = 2
    /\ Cardinality(Prioritized(TypeOrder[2])) = 2
    /\ Prioritized(TypeOrder[2]) \subseteq SessionExercises

\* C13: when the prioritized lists of the domains together hold at least
\* max_items items, the session has exactly max_items items
C13_UnusedSlotsRedistributed ==
    ( /\ session.composed
      /\ Cardinality(UNION {Prioritized(d) : d \in Domains}) >= session.max_items )
    => SessionLength = session.max_items

\* a count over the stored entries only, as the trainers' own statistics
\* lines make it: sum(1 for s in stats.values() if s.due_date <= today)
CountedDue_StoredOnly(d) ==
    SelectSeq(AllKeys(items, d),
              LAMBDA key : IF ~HasStats(d, key) THEN FALSE
                           ELSE StrLessEq(stats[d][key].due_date, isoformat(today)))

\* get_due_counts: the keys of a domain counted as due, those without a
\* stats entry or with due_date <= today
CountedDue(d) ==
    SelectSeq(AllKeys(items, d),
              LAMBDA key : IF ~HasStats(d, key) THEN TRUE
                           ELSE StrLessEq(stats[d][key].due_date, isoformat(today)))

\* get_due_counts: the number of due keys of every domain, as the dashboard
\* counts them
get_due_counts == [d \in Domains |-> Len(CountedDue(d))]

\* total = sum(counts.values())
TotalDue ==
    get_due_counts[TypeOrder[1]] + get_due_counts[TypeOrder[2]]
       + get_due_counts[TypeOrder[3]]

\* session_size = min(total, 60), 60 being the default of max_items
session_size(total, max_items) == Min(total, max_items)

\* C14: when fewer than max_items items are due over the three domains
\* (overdue, due today and new), the session holds every due item and
\* nothing else, and its length is the session size of the dashboard
C14_SmallSessionsComplete ==
    ( /\ session.composed
      /\ TotalDue < session.max_items )
    => /\ SessionExercises = UNION {Pool(d) : d \in Domains}
       /\ SessionLength = session_size(TotalDue, session.max_items)

(***************************************************************************)
(* The program in use: dashboard, composer and the four trainers           *)
(***************************************************************************)
\* load_all_due() as ExerciseScreen.on_mount calls it: max_items = 60 and
\* max_new = 10
DefaultMaxItems == 60

DefaultMaxNew == 10

\* daily trainer, Dashboard._refresh_stats: get_due_counts reads the three
\* stats files and the dashboard shows the count of each domain; the keys
\* counted for one of its lines are kept
RefreshStats(d) ==
    /\ stats = Loaded(saved, today)
    /\ selection' = [ by |-> "get_due_counts", domain |-> d,
                      keys |-> AllKeys(items, d),
                      due |-> CountedDue(d) ]
    /\ UNCHANGED <<today, items, stats, quality, pending, session, saved, run, answer>>

\* the trainers grade exercises; once the reviews of the run are done the
\* dashboard counts and the daily trainer composes a session from the
\* stats files
NextProgram ==
    \/ NextTrainers
    \/ /\ pending = NoPrompt
       /\ SumSeen(StatKeys) = MaxGraded
       /\ \E d \in Domains : RefreshStats(d)
    \/ /\ pending = NoPrompt
       /\ SumSeen(StatKeys) = MaxGraded
       /\ stats = Loaded(saved, today)
       /\ LoadAllDue(DefaultMaxItems, DefaultMaxNew)

SpecProgram == InitTrainers /\ [][NextProgram]_vars

\* C25: from empty stats maps, whatever the trainers do, every entry of the
\* maps and of the files has times_seen >= 1 and a last_reviewed date; an
\* entry appears only in a step that runs update on it, and a step that
\* composes a session or counts the due items leaves maps and files as
\* they are
C25_EntriesOnlyByReview ==
    /\ [](/\ \A dk \in StatKeys : /\ Stat(dk).times_seen >= 1
                                  /\ Stat(dk).last_reviewed # None
          /\ \A d \in Domains : \A k \in DOMAIN saved[d] :
                /\ saved[d][k].times_seen # <<Digit(0)>>
                /\ saved[d][k].last_reviewed # JsonNull)
    /\ [][/\ \A d \in Domains : \A k \in DOMAIN stats'[d] \ DOMAIN stats[d] :
                /\ Updated(d, k)
                /\ stats'[d][k].times_seen = 1
                /\ DOMAIN stats'[d] = DOMAIN stats[d] \cup {k}
          /\ \A d \in Domains : DOMAIN saved'[d] \subseteq DOMAIN stats'[d]
          /\ (session' # session \/ selection' # selection)
                => stats' = stats /\ saved' = saved]_vars

\* reviews in two domains, then a session composed and the due items
\* counted, with a key of the source data that still has no entry
C25_Witness ==
    /\ session.composed
    /\ selection.by = "get_due_counts"
    /\ Cardinality({d \in Domains : DOMAIN stats[d] # {}}) = 2
    /\ \E d \in Domains : \E k \in Range(AllKeys(items, d)) :
          ~HasStats(d, k) /\ Exercise(d, k) \in SessionExercises

\* C26: an entry last updated on day d with interval n is, on a day t with
\* d < t < d + n, returned by no loader, counted by no dashboard line and
\* put in no session composed on that day; on a day t >= d + n, the day d
\* itself when n = 0, the loader of its domain returns it and the dashboard
\* counts it, for as long as the entry is not updated again
C26_DueFromIntervalOn ==
    /\ [](\A e \in Domains :
            LET loaded == {ex.key : ex \in Pool(e)}
                counted == Range(CountedDue(e))
                keys == Range(AllKeys(items, e))
            IN  \A k \in DOMAIN stats[e] : \A d \in 0..today :
                   stats[e][k].last_reviewed = isoformat(d) =>
                      LET n == stats[e][k].interval
                      IN  /\ (d < today /\ today < d + n)
                                => (k \notin loaded /\ k \notin counted)
                          /\ (today >= d + n /\ k \in keys)
                                => (k \in loaded /\ k \in counted))
    /\ [][(session' # session \/ selection' # selection) =>
            \A dk \in StatKeys : \A d \in 0..today :
               ( /\ Stat(dk).last_reviewed = isoformat(d)
                 /\ d < today /\ today < d + Stat(dk).interval )
               => /\ session' # session
                       => Exercise(dk[1], dk[2])
                             \notin UNION {session'.base[e] : e \in Domains}
                                        \cup session'.extra
                  /\ selection' # selection => dk[2] \notin Range(selection'.due)]_vars

\* C26 witness: a session was composed on a day between the review of an
\* item and its due date, without the item but with another one that was
\* reviewed on that very day with interval 0
C26_Witness ==
    /\ session.composed
    /\ \E dk \in StatKeys : \E d \in 0..today :
          /\ Stat(dk).last_reviewed = isoformat(d)
          /\ d < today /\ today < d + Stat(dk).interval
          /\ Exercise(dk[1], dk[2]) \notin SessionExercises
    /\ \E dk \in StatKeys :
          /\ Stat(dk).last_reviewed = isoformat(today)
          /\ Stat(dk).interval = 0
          /\ Exercise(dk[1], dk[2]) \in SessionExercises

\* C24 as stated: every domain adds at most max_new \div 3 new items to
\* its prioritized list
C24_EvenShare ==
    session.composed =>
       \A d \in Domains :
          Cardinality(session.prioritized[d].new_items) <= session.max_new \div 3

\* C24: every domain adds at most max(1, max_new \div 3) new items to its
\* prioritized list and the three lists hold at most max_new of them; from
\* max_new = 3 on that is at most max_new \div 3 per domain, the remainder
\* of max_new left unused, and below 3 the first max_new domains holding
\* new items add one each
C24_NewPerDomainCapped ==
    session.composed =>
       LET added(d) == Cardinality(session.prioritized[d].new_items)
           total == added(TypeOrder[1]) + added(TypeOrder[2]) + added(TypeOrder[3])
       IN  /\ \A d \in Domains : added(d) <= Max(1, session.max_new \div 3)
           /\ total <= session.max_new
           /\ session.max_new >= 3 =>
                 /\ \A d \in Domains : added(d) <= session.max_new \div 3
                 /\ total <= 3 * (session.max_new \div 3)
           /\ session.max_new < 3 =>
                 total = Min(session.max_new,
                             Cardinality({d \in Domains : NewItems(d) # {}}))

\* max_new = 2: the first two domains add one new item each, the third
\* none of the new items it holds
C24_Witness ==
    /\ session.composed
    /\ session.max_new = 2
    /\ Cardinality(session.prioritized[TypeOrder[1]].new_items) = 1
    /\ Cardinality(session.prioritized[TypeOrder[2]].new_items) = 1
    /\ session.prioritized[TypeOrder[3]].new_items = {}
    /\ NewItems(TypeOrder[3]) # {}

\* the orders random.shuffle can give a list
Shuffled(S) ==
    {s \in [1..Cardinality(S) -> S] :
        \A i, j \in 1..Cardinality(S) : i # j => s[i] # s[j]}

\* a screen that always shows the first exercise of the queue
Current_First == run.exercises[1]

\* the exercise the running session shows
Current == run.exercises[run.current_idx + 1]

\* the session of a trainer that found nothing due
NothingDue(trainer) == [NoRun EXCEPT !.trainer = trainer, !.phase = "empty"]

\* a session starts on its first exercise
Started(trainer, mode, exercises, idx) ==
    [NoRun EXCEPT !.trainer = trainer, !.mode = mode, !.exercises = exercises,
                  !.current_idx = idx, !.phase = "ask"]

\* the exercises graded with quality 0 and not shown again since, after
\* the exercise ex is graded with q
WrongAfter(ex, q) == IF q = 0 THEN run.wrong \cup {ex} ELSE run.wrong \ {ex}

\* daily trainer, ExerciseScreen.on_mount: the session is composed, the
\* three stats files are loaded and the first exercise is shown
OnMount ==
    /\ run = NoRun
    /\ load_all_due(DefaultMaxItems, DefaultMaxNew)
    /\ stats' = Loaded(saved, today)
    /\ IF SessionExercises' = {}
       THEN run' = NothingDue("Daily")
       ELSE \E exercises \in Shuffled(SessionExercises') :
               run' = Started("Daily", "", exercises, 0)
    /\ UNCHANGED <<today, items, quality, pending, selection, saved, answer>>

\* daily trainer, ExerciseScreen.on_answer_submitted: while waiting for the
\* next exercise Enter advances (_advance, _show_exercise, _end_session past
\* the last one); "h" asks for the hint, which the label shows when the
\* exercise has one; an empty text is ignored; otherwise the answer is
\* graded, the result recorded, update runs and the stats file of the
\* exercise is saved
OnAnswerSubmitted(value, correct) ==
    /\ run.trainer = "Daily"
    /\ run.phase \in {"ask", "next"}
    /\ LET raw == strip(value)
       IN  IF run.phase = "next"
           THEN /\ run' = IF run.current_idx + 1 >= Len(run.exercises)
                          THEN [run EXCEPT !.current_idx = @ + 1, !.phase = "completed"]
                          ELSE [run EXCEPT !.current_idx = @ + 1, !.phase = "ask",
                                           !.hint = FALSE,
                                           !.wrong = @ \ {run.exercises[run.current_idx + 2]}]
                /\ UNCHANGED <<stats, quality, saved>>
           ELSE IF lower(raw) = <<"h">>
           THEN /\ \E get_hint \in IF Current.type_name = "Vocabulary" THEN {FALSE}
                                    ELSE BOOLEAN :
                      run' = [run EXCEPT !.hint = @ \/ get_hint]
                /\ UNCHANGED <<stats, quality, saved>>
           ELSE IF raw = <<>>
           THEN UNCHANGED <<run, stats, quality, saved>>
           ELSE /\ quality' = (IF correct THEN 2 ELSE 0)
                /\ stats' = Reviewed(Current.type_name, Current.key, quality')
                /\ saved' = [saved EXCEPT ![Current.type_name] =
                                     save_stats(stats'[Current.type_name])]
                /\ run' = [run EXCEPT !.phase = "next",
                                      !.wrong = WrongAfter(Current, quality'),
                                      !.results = Append(@, [exercise |-> Current,
                                                             correct |-> correct])]
    /\ UNCHANGED <<today, items, pending, selection, session, answer>>

\* daily trainer, ExerciseScreen.action_end_session: Esc ends the session
ActionEndSession ==
    /\ run.trainer = "Daily"
    /\ run.phase \in {"ask", "next"}
    /\ run' = [run EXCEPT !.phase = "quit"]
    /\ UNCHANGED <<today, items, stats, quality, pending, selection, session, saved, answer>>

\* vocabulary trainer, run_study_session with --srs: the stats are loaded
\* and the due cards become the study list, in the order of the deck
RunStudySession(mode) ==
    /\ run = NoRun
    /\ stats' = Loaded(saved, today)
    /\ LET due_cards == DueCards(items["Vocabulary"], stats'["Vocabulary"], today)
       IN  run' = IF due_cards = <<>> THEN NothingDue("Vocabulary")
                  ELSE Started("Vocabulary", mode,
                               [i \in DOMAIN due_cards |->
                                   Exercise("Vocabulary",
                                            MakeKey(due_cards[i].french,
                                                    due_cards[i].english))],
                               0)
    /\ UNCHANGED <<today, items, quality, pending, selection, session, saved, answer>>

\* vocabulary trainer, one pass of the loop of run_study_session: the card
\* is asked and update runs on its stats; after the last card the loop ends
\* and save_stats writes the file
StudyNextCard(q) ==
    /\ run.trainer = "Vocabulary"
    /\ run.phase = "ask"
    /\ quality' = q
    /\ stats' = Reviewed("Vocabulary", Current.key, q)
    /\ IF run.current_idx + 1 >= Len(run.exercises)
       THEN /\ saved' = [saved EXCEPT !["Vocabulary"] = save_stats(stats'["Vocabulary"])]
            /\ run' = [run EXCEPT !.current_idx = @ + 1, !.phase = "completed",
                                  !.wrong = WrongAfter(Current, q)]
       ELSE /\ saved' = saved
            /\ run' = [run EXCEPT !.current_idx = @ + 1,
                                  !.wrong = WrongAfter(Current, q)
                                               \ {run.exercises[run.current_idx + 2]}]
    /\ UNCHANGED <<today, items, pending, selection, session, answer>>

\* conjugation trainer with --srs, main: the due combinations are listed
\* and random.choice picks the first one asked
ConjugationStart(filter_tense) ==
    /\ run = NoRun
    /\ stats' = Loaded(saved, today)
    /\ LET due == get_due_combinations(items["Conjugation"], stats'["Conjugation"],
                                       filter_tense, today)
           due_combinations == [i \in DOMAIN due |->
                                   Exercise("Conjugation", MakeKey(due[i][1], due[i][2]))]
       IN  IF due = <<>> THEN run' = NothingDue("Conjugation")
           ELSE \E i \in DOMAIN due :
                   run' = Started("Conjugation", "", due_combinations, i - 1)
    /\ UNCHANGED <<today, items, quality, pending, selection, session, saved, answer>>

\* conjugation trainer: ask_one_verb returns score of 6 and the quality
\* prompt opens
ConjugationAsk(score) ==
    /\ run.trainer = "Conjugation"
    /\ run.phase = "ask"
    /\ TimesSeen("Conjugation", Current.key) < MaxGraded
    /\ pending' = << [ trainer |-> "Conjugation",
                       key |-> Current.key,
                       suggested |-> calculate_quality_from_score(score, 6) ] >>
    /\ run' = [run EXCEPT !.phase = "rate"]
    /\ UNCHANGED <<today, items, stats, quality, selection, session, saved, answer>>

\* conjugation trainer: the answer to "Un autre verbe ?", then the top of
\* the loop: the session is over when no combination is left, otherwise
\* random.choice picks the next one among those left
ConjugationNext(quit) ==
    /\ run.trainer = "Conjugation"
    /\ run.phase = "next"
    /\ IF quit THEN run' = [run EXCEPT !.phase = "quit"]
       ELSE IF run.exercises = <<>> THEN run' = [run EXCEPT !.phase = "completed"]
       ELSE \E i \in DOMAIN run.exercises :
               run' = [run EXCEPT !.current_idx = i - 1, !.phase = "ask",
                                  !.wrong = @ \ {run.exercises[i]}]
    /\ UNCHANGED <<today, items, stats, quality, pending, selection, session, saved, answer>>

\* grammar trainer with --srs, main: the due exercises of the topic are
\* shuffled
GrammarStart(topic) ==
    /\ run = NoRun
    /\ stats' = Loaded(saved, today)
    /\ LET due == get_due_exercises(SelectSeq(items["Grammar"], LAMBDA e : e.topic = topic),
                                    topic, stats'["Grammar"], today)
       IN  IF due = <<>> THEN run' = NothingDue("Grammar")
           ELSE \E exercises \in Shuffled({Exercise("Grammar", MakeKey(topic, due[i].id)) :
                                              i \in DOMAIN due}) :
                   run' = Started("Grammar", "", exercises, 0)
    /\ UNCHANGED <<today, items, quality, pending, selection, session, saved, answer>>

\* grammar trainer: ask_one_exercise returns and the quality prompt opens,
\* suggesting 3 if correct else 0
GrammarAsk(correct) ==
    /\ run.trainer = "Grammar"
    /\ run.phase = "ask"
    /\ pending' = << [ trainer |-> "Grammar",
                       key |-> Current.key,
                       suggested |-> IF correct THEN 3 ELSE 0 ] >>
    /\ run' = [run EXCEPT !.phase = "rate"]
    /\ UNCHANGED <<today, items, stats, quality, selection, session, saved, answer>>

\* grammar trainer: the answer to "Suivant ?", then the next exercise of
\* the list
GrammarNext(quit) ==
    /\ run.trainer = "Grammar"
    /\ run.phase = "next"
    /\ run' = IF quit THEN [run EXCEPT !.phase = "quit"]
              ELSE [run EXCEPT !.current_idx = @ + 1, !.phase = "ask",
                               !.wrong = @ \ {run.exercises[run.current_idx + 2]}]
    /\ UNCHANGED <<today, items, stats, quality, pending, selection, session, saved, answer>>

\* conjugation and grammar trainers: a line is typed at the quality prompt.
\* The prompt is repeated, or update runs with the quality returned and
\* save_stats writes the file; a KeyError raised by update ends the process.
\* The conjugation trainer removes the combination from the due list when
\* quality > 0; the grammar trainer ends after the last exercise
SessionRate(text) ==
    /\ run.phase = "rate"
    /\ LET p == pending[1]
           r == ask_quality_rating(p.suggested, text)
           s == IF HasStats(p.trainer, p.key) THEN stats[p.trainer][p.key]
                ELSE SRSStats(today)
       IN  IF r = Reprompt THEN UNCHANGED <<stats, quality, pending, saved, run>>
           ELSE /\ quality' = r[1]
                /\ pending' = NoPrompt
                /\ IF updateRaises(s, r[1])
                   THEN /\ UNCHANGED <<stats, saved>>
                        /\ run' = [run EXCEPT !.phase = "error"]
                   ELSE /\ stats' = Reviewed(p.trainer, p.key, r[1])
                        /\ saved' = [saved EXCEPT ![p.trainer] = save_stats(stats'[p.trainer])]
                        /\ run' =
                             IF run.trainer = "Conjugation"
                             THEN [run EXCEPT
                                      !.exercises = IF r[1] > 0
                                                    THEN SubSeq(@, 1, run.current_idx)
                                                            \o SubSeq(@, run.current_idx + 2,
                                                                      Len(@))
                                                    ELSE @,
                                      !.phase = "next",
                                      !.wrong = WrongAfter(Current, r[1])]
                             ELSE [run EXCEPT
                                      !.phase = IF run.current_idx + 1 < Len(run.exercises)
                                                THEN "next" ELSE "completed",
                                      !.wrong = WrongAfter(Current, r[1])]
    /\ UNCHANGED <<today, items, selection, session, answer>>

\* Ctrl-C while a command-line trainer waits for input, or the process is
\* killed: the session ends and nothing more is written
Interrupt ==
    /\ run.phase \in {"ask", "rate", "next"}
    /\ run' = [run EXCEPT !.phase = "interrupted"]
    /\ UNCHANGED <<today, items, stats, quality, pending, selection, session, saved, answer>>

\* the source data of a session: the three cards alone, or one card, the
\* verb and two grammar exercises; the stats files are empty or hold one
\* record, on the first card
InitSessions ==
    /\ today = 1
    /\ items \in { [d \in Domains |-> IF d = "Vocabulary" THEN CardData ELSE <<>>],
                    [ComposeSource EXCEPT !["Vocabulary"] = Prefix(CardData, 1)] }
    /\ stats \in {NoStats}
                   \cup {[NoStats EXCEPT !["Vocabulary"] =
                             (AllKeys(items, "Vocabulary")[1] :> r)] : r \in StoredRecords}
    /\ saved = Files(stats)
    /\ quality = NoCall
    /\ pending = NoPrompt
    /\ selection = NoSelection
    /\ session = NoSession
    /\ run = NoRun
    /\ answer = NoAnswer

NextSessions ==
    \/ OnMount
    \/ \E value \in {<<>>, <<" ">>, <<"h">>, <<" ", "H">>, <<"a">>, <<"h", "a">>} :
          \E correct \in BOOLEAN : OnAnswerSubmitted(value, correct)
    \/ ActionEndSession
    \/ \E mode \in {"easy", "medium", "hard", "expert"} : RunStudySession(mode)
    \/ /\ run.trainer = "Vocabulary"
       /\ run.phase = "ask"
       /\ \E q \in StudyQualities(run.mode) : StudyNextCard(q)
    \/ \E filter_tense \in {NoTense} \cup Range(TrainerTenses) : ConjugationStart(filter_tense)
    \/ \E score \in 0..6 : ConjugationAsk(score)
    \/ \E quit \in BOOLEAN : ConjugationNext(quit)
    \/ \E topic \in {items["Grammar"][i].topic : i \in DOMAIN items["Grammar"]} :
          GrammarStart(topic)
    \/ \E correct \in BOOLEAN : GrammarAsk(correct)
    \/ \E quit \in BOOLEAN : GrammarNext(quit)
    \/ \E text \in Typed : SessionRate(text)
    \/ Interrupt

SpecSessions == InitSessions /\ [][NextSessions]_vars

\* the reviews a stats map records
RECURSIVE SeenIn(_)
SeenIn(st) ==
    IF DOMAIN st = {} THEN 0
    ELSE LET k == CHOOSE x \in DOMAIN st : TRUE
         IN  st[k].times_seen + SeenIn([j \in DOMAIN st \ {k} |-> st[j]])

\* C15: at every point of a session of a trainer that updates SRS stats the
\* stats files lack the update of at most one graded exercise (the
\* reviews counted in memory less those counted in the files), so an
\* interruption loses at most one
C15_SavedAfterEachGrade ==
    LET Unsaved ==
           SeenIn(stats[TypeOrder[1]]) + SeenIn(stats[TypeOrder[2]])
              + SeenIn(stats[TypeOrder[3]])
              - SeenIn(Loaded(saved, today)[TypeOrder[1]])
              - SeenIn(Loaded(saved, today)[TypeOrder[2]])
              - SeenIn(Loaded(saved, today)[TypeOrder[3]])
    IN  Unsaved <= 1

\* C16: in a session of the daily trainer or of the conjugation trainer
\* that runs to completion, every exercise graded with quality 0 has been
\* shown again after that grading
C16_WrongShownAgain ==
    (run.trainer \in {"Daily", "Conjugation"} /\ run.phase = "completed")
    => run.wrong = {}

\* Answer matching.  A text is the sequence of its characters.

\* the position of the first c in text, 0 when there is none
RECURSIVE IndexOf(_, _)
IndexOf(text, c) ==
    IF text = <<>> THEN 0
    ELSE IF Head(text) = c THEN 1
    ELSE LET r == IndexOf(Tail(text), c) IN IF r = 0 THEN 0 ELSE r + 1

\* text[n:]
Drop(text, n) == SubSeq(text, n + 1, Len(text))

\* re.sub(r"\s*\([^)]*\)\s*", " ", text): leftmost matches; a match starts
\* where a run of spaces, possibly empty, is followed by "(" and a later ")"
RECURSIVE SubParenthetical(_)
SubParenthetical(text) ==
    IF text = <<>> THEN <<>>
    ELSE LET rest == lstrip(text)
             close == IndexOf(rest, ")")
         IN  IF rest # <<>> /\ Head(rest) = "(" /\ close > 0
             THEN <<" ">> \o SubParenthetical(lstrip(Drop(rest, close)))
             ELSE <<Head(text)>> \o SubParenthetical(Tail(text))

\* re.sub(r"  +", " ", text)
RECURSIVE CollapseSpaces(_)
CollapseSpaces(text) ==
    IF text = <<>> THEN <<>>
    ELSE IF Len(text) >= 2 /\ text[1] = " " /\ text[2] = " "
         THEN <<" ">> \o CollapseSpaces(lstrip(text))
         ELSE <<Head(text)>> \o CollapseSpaces(Tail(text))

\* text.replace("(", "").replace(")", "")
RemoveParens(text) == SelectSeq(text, LAMBDA c : c # "(" /\ c # ")")

\* _expand_parens: the forms accepted for a variant
expand_parens(text) ==
    { text,
      CollapseSpaces(strip(SubParenthetical(text))),
      CollapseSpaces(strip(RemoveParens(text))) }

\* the length of the block a[i..] = b[j..] inside a[..ahi] and b[..bhi]
RECURSIVE CommonPrefix(_, _, _, _, _, _)
CommonPrefix(a, b, i, j, ahi, bhi) ==
    IF i > ahi \/ j > bhi THEN 0
    ELSE IF a[i] # b[j] THEN 0
    ELSE 1 + CommonPrefix(a, b, i + 1, j + 1, ahi, bhi)

\* SequenceMatcher.find_longest_match without junk: <<i, j, k>>, the longest
\* block of a[alo..ahi] and b[blo..bhi]; of the longest the one that starts
\* earliest in a, and of those the one that starts earliest in b
find_longest_match(a, b, alo, ahi, blo, bhi) ==
    LET size == [p \in (alo..ahi) \X (blo..bhi) |->
                    CommonPrefix(a, b, p[1], p[2], ahi, bhi)]
        k == CHOOSE n \in 0..Len(a) :
                /\ \A p \in DOMAIN size : size[p] <= n
                /\ n = 0 \/ \E p \in DOMAIN size : size[p] = n
        first == CHOOSE p \in DOMAIN size :
                    /\ size[p] = k
                    /\ \A q \in DOMAIN size :
                          size[q] = k => \/ p[1] < q[1]
                                         \/ p[1] = q[1] /\ p[2] <= q[2]
    IN  <<first[1], first[2], k>>

\* the sum of the sizes of SequenceMatcher.get_matching_blocks: the longest
\* block, then the same to its left and to its right
RECURSIVE matches(_, _, _, _, _, _)
matches(a, b, alo, ahi, blo, bhi) ==
    IF alo > ahi \/ blo > bhi THEN 0
    ELSE LET m == find_longest_match(a, b, alo, ahi, blo, bhi)
         IN  IF m[3] = 0 THEN 0
             ELSE m[3] + matches(a, b, alo, m[1] - 1, blo, m[2] - 1)
                       + matches(a, b, m[1] + m[3], ahi, m[2] + m[3], bhi)

\* SequenceMatcher(None, a, b).ratio() = 2.0 * matches / length, and 1.0
\* when both texts are empty, kept as the fraction
ratio(a, b) ==
    IF Len(a) + Len(b) = 0 THEN [num |-> 1, den |-> 1]
    ELSE [num |-> 2 * matches(a, b, 1, Len(a), 1, Len(b)), den |-> Len(a) + Len(b)]

\* exact matches only
fuzzy_match_ExactOnly(user, variants) ==
    user \in UNION {expand_parens(lower(strip(v))) : v \in variants}

\* _fuzzy_match(user, variants), threshold = 0.85.  ratio() >= threshold:
\* the quotient of two small integers rounded to a double is at least the
\* double 0.85 exactly when the fraction is at least 85/100
fuzzy_match(user, variants) ==
    LET accepted == UNION {expand_parens(lower(strip(v))) : v \in variants}
        threshold == 85
        AtLeast(r, hundredths) == 100 * r.num >= hundredths * r.den
    IN  \/ user \in accepted
        \/ \E candidate \in accepted : AtLeast(ratio(user, candidate), threshold)

\* a row of master_vocabulary.csv after the split on "|" and the strip of
\* each variant
Card(french_variants, english_variants) ==
    [french_variants |-> french_variants, english_variants |-> english_variants]

\* english_to_french[norm_eng] of _load_vocab_exercises: the French variants
\* of the cards that list norm_eng among their English variants
english_to_french(cards, norm_eng) ==
    UNION { Range(cards[i].french_variants) :
               i \in {n \in DOMAIN cards :
                         \E e \in DOMAIN cards[n].english_variants :
                            strip(lower(cards[n].english_variants[e])) = norm_eng} }

\* no synonyms
french_synonyms_None(cards, card) == {}

\* the synonyms of a card: the French variants listed under one of its
\* English variants that are not its own
french_synonyms(cards, card) ==
    UNION { english_to_french(cards, strip(lower(card.english_variants[e]))) :
               e \in DOMAIN card.english_variants }
       \ Range(card.french_variants)

\* the variants VocabularyExercise.check matches the input against
CheckVariants(cards, i, direction) ==
    IF direction = "english" THEN Range(cards[i].english_variants)
    ELSE Range(cards[i].french_variants) \cup french_synonyms(cards, cards[i])

\* VocabularyExercise.check(user_input) of the exercise of card i
check(cards, i, direction, user_input) ==
    fuzzy_match(lower(strip(user_input)), CheckVariants(cards, i, direction))

\* bounds of the generated texts: the text before and after a
\* parenthetical, and a typed answer
MaxAffix == 2

MaxAnswer == 3

\* the longest text handed to normalize_input
MaxRaw == 4

\* the decks checked: the examples, and one card per variant with a
\* parenthetical, spaces and letters around "(b)"
Decks ==
    { << Card(<< <<"c","h","a","t">> >>, << <<"c","a","t">> >>),
         Card(<< <<"m","a","t","o","u">> >>, << <<"c","a","t">> >>) >>,
      << Card(<< <<"c","h","a","t">> >>, << <<"c","a","t">> >>),
         Card(<< <<"m","a","t","o","u">> >>, << <<"c","a","t">> >>),
         Card(<< <<"c","h","i","e","n">> >>, << <<"d","o","g">> >>) >>,
      << Card(<< <<"m","i","n","o","u">>, <<"m","i","n","e","t">> >>,
              << <<"C","a","t">>, <<"k","i","t","t","y">> >>),
         Card(<< <<"c","h","a","t">> >>, << <<"c","a","t">> >>),
         Card(<< <<"c","h","i","e","n">> >>, << <<"d","o","g">> >>) >>,
      << Card(<< <<"a","s","s","e","o","i","r">> >>,
              << <<"t","o"," ","s","i","t"," ","(","d","o","w","n",")">> >>) >>,
      << Card(<< <<"p","o","m","m","e">> >>, << <<"a","p","p","l","e">> >>) >> }
       \cup LET Affixes == UNION {[1..n -> {"a", " "}] : n \in 0..MaxAffix}
                ParenVariants ==
                   {v \in {pre \o <<"(", "b", ")">> \o post : pre \in Affixes, post \in Affixes} :
                       strip(v) = v}
            IN  {<< Card(<< <<"b">> >>, <<v>>) >> : v \in ParenVariants}

\* the answers typed: the examples, every short text, and the forms of the
\* variants of the card
Answers(cards, i) ==
    { <<"x","y","z">>, <<"a","p","l","e">>, <<"a","p","p","l","e">>,
      <<" ","C","h","a","t"," ">>, <<"m","a","t","o","u">>, <<"m","i","n","e","t">>,
      <<"t","o"," ","s","i","t">>, <<"t","o"," ","s","i","t"," ","d","o","w","n">>,
      <<"T","o"," ","s","i","t"," ","(","d","o","w","n",")">> }
       \cup UNION {[1..n -> {"a", "b", " "}] : n \in 0..MaxAnswer}
       \cup UNION {expand_parens(v) : v \in Range(cards[i].english_variants)}

\* one answer is checked per run: an exercise of the deck, its direction
\* drawn by random.choice, and the text typed
Check(i, direction, user_input) ==
    /\ ~answer.checked
    /\ answer' = [ checked |-> TRUE, card |-> i, direction |-> direction,
                   user_input |-> user_input,
                   variants |-> CheckVariants(items["Vocabulary"], i, direction),
                   correct |-> check(items["Vocabulary"], i, direction, user_input) ]
    /\ UNCHANGED <<today, items, stats, quality, pending, selection, session, saved, run>>

InitMatch ==
    /\ today = 0
    /\ \E cards \in Decks : items = [d \in Domains |-> IF d = "Vocabulary" THEN cards ELSE <<>>]
    /\ stats = NoStats
    /\ quality = NoCall
    /\ pending = NoPrompt
    /\ selection = NoSelection
    /\ session = NoSession
    /\ saved = Files(stats)
    /\ run = NoRun
    /\ answer = NoAnswer

NextMatch ==
    \E i \in DOMAIN items["Vocabulary"] : \E direction \in {"english", "french"} :
       \E user_input \in Answers(items["Vocabulary"], i) : Check(i, direction, user_input)

SpecMatch == InitMatch /\ [][NextMatch]_vars

\* the text with every parenthetical and its parentheses deleted: the
\* optional part dropped
RECURSIVE DropParenthetical(_)
DropParenthetical(text) ==
    IF text = <<>> THEN <<>>
    ELSE IF Head(text) = "(" /\ IndexOf(text, ")") > 0
         THEN DropParenthetical(Drop(text, IndexOf(text, ")")))
         ELSE <<Head(text)>> \o DropParenthetical(Tail(text))

\* the text typed, trimmed and lowercased
UserText == lower(strip(answer.user_input))

\* C17: against a variant with a parenthetical, the trimmed lowercase input
\* is accepted when it equals the variant, the variant with the
\* parenthetical and its parentheses removed and double spaces collapsed,
\* or the variant with only the parentheses removed; "xyz" is rejected for
\* "to sit (down)"
C17_ParentheticalForms ==
    (answer.checked /\ answer.direction = "english") =>
       /\ \A v \in answer.variants :
             ( /\ IndexOf(v, "(") > 0
               /\ IndexOf(Drop(v, IndexOf(v, "(")), ")") > 0
               /\ UserText \in { lower(strip(v)),
                                 CollapseSpaces(strip(DropParenthetical(lower(strip(v))))),
                                 CollapseSpaces(strip(RemoveParens(lower(strip(v))))) } )
             => answer.correct
       /\ ( /\ answer.variants = {<<"t","o"," ","s","i","t"," ","(","d","o","w","n",")">>}
            /\ answer.user_input = <<"x","y","z">> )
          => ~answer.correct

\* C18: for a French-recall question the accepted set is the French
\* variants of every card that shares an English variant (trimmed,
\* lowercased) with the card asked, its own included, each of them is
\* accepted when typed, and two cards accept each other's French variants
\* or neither does
C18_SynonymsAccepted ==
    (answer.checked /\ answer.direction = "french") =>
       LET cards == items["Vocabulary"]
           SharingCards(i) ==
              {n \in DOMAIN cards :
                  \E e \in DOMAIN cards[i].english_variants :
                     \E f \in DOMAIN cards[n].english_variants :
                        strip(lower(cards[i].english_variants[e]))
                           = strip(lower(cards[n].english_variants[f]))}
       IN  /\ answer.variants
                 = UNION {Range(cards[n].french_variants) : n \in SharingCards(answer.card)}
           /\ UserText \in {lower(strip(v)) : v \in answer.variants} => answer.correct
           /\ \A i, j \in DOMAIN cards :
                 Range(cards[j].french_variants) \subseteq CheckVariants(cards, i, "french")
                 <=> Range(cards[i].french_variants) \subseteq CheckVariants(cards, j, "french")

\* "matou" typed for the card chat / cat of a deck that also holds
\* matou / cat, and accepted
C18_Witness ==
    /\ answer.checked
    /\ answer.direction = "french"
    /\ items["Vocabulary"][answer.card].french_variants = << <<"c","h","a","t">> >>
    /\ answer.user_input = <<"m","a","t","o","u">>
    /\ <<"m","a","t","o","u">> \in answer.variants
    /\ answer.correct

\* C19: an answer is accepted if and only if its trimmed lowercase form
\* equals a generated form of an accepted variant or has with one a
\* similarity ratio, 2 x matched characters / total length of both texts,
\* of at least 0.85
C19_AcceptedIffExactOrSimilar ==
    answer.checked =>
       ( answer.correct
         <=> \E v \in answer.variants :
                \E form \in expand_parens(lower(strip(v))) :
                   \/ UserText = form
                   \/ 100 * 2 * matches(UserText, form, 1, Len(UserText), 1, Len(form))
                         >= 85 * (Len(UserText) + Len(form)) )

\* "aple" typed for "apple": no form is equal, and the answer is accepted
C19_Witness ==
    /\ answer.checked
    /\ answer.variants = {<<"a","p","p","l","e">>}
    /\ answer.user_input = <<"a","p","l","e">>
    /\ answer.correct

(***************************************************************************)
(* The stats files: save_stats and load_stats around the engine            *)
(***************************************************************************)
\* a program starts with nothing in memory; the stats file of the
\* vocabulary trainer is missing or holds a stored record of the card,
\* alone or beside a record never reviewed under the key of a card that
\* has left the deck
InitStore ==
    /\ today = 1
    /\ items = OneCard
    /\ stats = NoStats
    /\ quality = NoCall
    /\ pending = NoPrompt
    /\ selection = NoSelection
    /\ session = NoSession
    /\ LET card == AllKeys(OneCard, "Vocabulary")[1]
           stale == MakeKey("vieux", "old")
           StoredMaps ==
              {(card :> s) : s \in StoredStats}
                 \cup {(card :> s) @@ (stale :> SRSStats(0)) :
                          s \in {r \in StoredStats : r.last_reviewed # None /\ r.interval = 3}}
       IN  saved \in {Files(NoStats)}
                        \cup {Files([NoStats EXCEPT !["Vocabulary"] = st]) : st \in StoredMaps}
    /\ run = NoRun
    /\ answer = NoAnswer

\* save_stats(stats, file_path) of one domain
SaveStats(d) ==
    /\ saved' = [saved EXCEPT ![d] = save_stats(stats[d])]
    /\ UNCHANGED <<today, items, stats, quality, pending, selection, session, run, answer>>

\* stats = load_stats(file_path, SRSStats) of one domain
LoadStats(d) ==
    /\ stats' = [stats EXCEPT ![d] = load_stats(saved[d], today)]
    /\ UNCHANGED <<today, items, quality, pending, selection, session, saved, run, answer>>

NextStore ==
    \/ \E d \in Domains : SaveStats(d)
    \/ \E d \in Domains : LoadStats(d)
    \/ \E d \in Domains : \E k \in Range(AllKeys(items, d)) : \E q \in 0..3 :
          Update(d, k, q)

SpecStore == InitStore /\ [][NextStore]_vars

\* C20: whatever map is saved, loading the file written yields under every
\* key a record equal to the saved one in all six fields, null
\* last_reviewed included; and saving a map just loaded, untouched, writes
\* the file it was loaded from, key for key and value for value
C20_StatsRoundTrip ==
    [][\A d \in Domains :
          /\ SaveStats(d) =>
                /\ DOMAIN load_stats(saved'[d], today) = DOMAIN stats[d]
                /\ \A k \in DOMAIN stats[d] :
                      LET back == load_stats(saved'[d], today)[k]
                      IN  /\ back.times_seen = stats[d][k].times_seen
                          /\ back.times_correct = stats[d][k].times_correct
                          /\ back.last_reviewed = stats[d][k].last_reviewed
                          /\ back.interval = stats[d][k].interval
                          /\ back.ease_factor = stats[d][k].ease_factor
                          /\ back.due_date = stats[d][k].due_date
          /\ LoadStats(d) =>
                /\ DOMAIN save_stats(stats'[d]) = DOMAIN saved[d]
                /\ save_stats(stats'[d]) = saved[d]]_vars

\* C20 witness: a file was loaded, a review was added and the map saved
\* and loaded again; the file holds a record never reviewed, with null for
\* last_reviewed, and an ease factor printed in the long form
C20_Witness ==
    /\ quality # NoCall
    /\ saved = Files(stats)
    /\ stats = Loaded(saved, today)
    /\ \E k \in DOMAIN saved["Vocabulary"] : saved["Vocabulary"][k].last_reviewed = JsonNull
    /\ \E k \in DOMAIN saved["Vocabulary"] : Find(saved["Vocabulary"][k].ease_factor, 95) > 0
    /\ \E k \in DOMAIN stats["Vocabulary"] : stats["Vocabulary"][k].last_reviewed = None

(***************************************************************************)
(* The due predicate in its seven places                                   *)
(***************************************************************************)
\* the three loaders, the two due selections of the standalone trainers,
\* the dashboard counter and the vocabulary trainer, over the same stored
\* statistics on the same day
NextCounts ==
    \/ NextDue
    \/ \E d \in Domains : RefreshStats(d)
    \/ \E mode \in {"easy", "medium", "hard", "expert"} : RunStudySession(mode)

SpecCounts == InitDue /\ [][NextCounts]_vars

\* C29: over the same stats maps and day, a key enumerated by a loader and
\* by another due selection (the dashboard counter, get_due_combinations,
\* get_due_exercises, the due cards of the vocabulary trainer) is due in
\* the one exactly when it is due in the other, and the dashboard's count
\* of a domain is the number of exercises the loader of that domain returns
C29_DueEverywhereAlike ==
    /\ \A d \in Domains :
          LET exercises == LoadExercises(items, d, stats[d], today)
              loaded == {exercises[i].key : i \in DOMAIN exercises}
          IN  /\ get_due_counts[d] = Len(exercises)
              /\ Range(CountedDue(d)) = loaded
              /\ selection.domain = d =>
                    \A k \in Range(selection.keys) \cap Range(AllKeys(items, d)) :
                       k \in Range(selection.due) <=> k \in loaded
    /\ ( run.trainer = "Vocabulary" /\ stats = Loaded(saved, today) ) =>
          LET exercises == LoadExercises(items, "Vocabulary", stats["Vocabulary"], today)
          IN  /\ {run.exercises[i].key : i \in DOMAIN run.exercises}
                    = {exercises[i].key : i \in DOMAIN exercises}
              /\ Len(run.exercises) = get_due_counts["Vocabulary"]

\* C29 witness: the dashboard counted a domain in which one key has no
\* entry, one stored key is due and one stored key is due later, and the
\* loader returns as many exercises as were counted
C29_Witness ==
    /\ selection.by = "get_due_counts"
    /\ LET d == selection.domain
           exercises == LoadExercises(items, d, stats[d], today)
       IN  /\ \E k \in Range(selection.keys) : ~HasStats(d, k) /\ k \in Range(selection.due)
           /\ \E k \in Range(selection.keys) : HasStats(d, k) /\ k \in Range(selection.due)
           /\ \E k \in Range(selection.keys) : HasStats(d, k) /\ k \notin Range(selection.due)
           /\ Len(exercises) = Len(selection.due)
           /\ Len(exercises) < Len(selection.keys)

(***************************************************************************)
(* The exercise screen of the daily trainer                                *)
(***************************************************************************)
\* a session of the daily trainer over one card, one verb and one grammar
\* exercise, the first key of every domain reviewed before or not at all
InitDaily ==
    /\ today = 1
    /\ items = [d \in Domains |-> IF d = "Vocabulary" THEN Prefix(CardData, 1)
                                  ELSE IF d = "Conjugation" THEN VerbData
                                  ELSE ExerciseData]
    /\ stats \in {NoStats}
                   \cup {[d \in Domains |-> (AllKeys(items, d)[1] :> r)] : r \in StoredRecords}
    /\ saved = Files(stats)
    /\ quality = NoCall
    /\ pending = NoPrompt
    /\ selection = NoSelection
    /\ session = NoSession
    /\ run = NoRun
    /\ answer = NoAnswer

\* one session of the daily trainer: mounted, then submissions and Escape
NextDaily ==
    \/ OnMount
    \/ \E value \in {<<>>, <<" ">>, <<"h">>, <<" ", "H">>, <<"a">>, <<"h", "a">>} :
          \E correct \in BOOLEAN : OnAnswerSubmitted(value, correct)
    \/ ActionEndSession

SpecDaily == InitDaily /\ [][NextDaily]_vars

\* C27: in the exercise screen results[k] is the grade of exercises[k] for
\* every k < len(results) and len(results) <= len(exercises); recorded
\* results are never rewritten; a submission while waiting_for_next only
\* advances current_idx; an empty or "h" submission neither grades nor
\* advances; any other submission grades the exercise at current_idx and
\* does not advance
C27_GradedOnceInOrder ==
    /\ [](run.trainer = "Daily" =>
            /\ Len(run.results) <= Len(run.exercises)
            /\ Len(run.results) \in {run.current_idx, run.current_idx + 1}
            /\ \A k \in DOMAIN run.results : run.results[k].exercise = run.exercises[k])
    /\ [][/\ run.trainer = "Daily" =>
               SubSeq(run'.results, 1, Len(run.results)) = run.results
          /\ \A value \in {<<>>, <<" ">>, <<"h">>, <<" ", "H">>, <<"a">>, <<"h", "a">>} :
                \A correct \in BOOLEAN :
                   OnAnswerSubmitted(value, correct) =>
                      IF run.phase = "next"
                      THEN /\ run'.current_idx = run.current_idx + 1
                           /\ run'.results = run.results
                           /\ stats' = stats /\ saved' = saved
                      ELSE IF value \in {<<>>, <<" ">>, <<"h">>, <<" ", "H">>}
                      THEN /\ run'.results = run.results
                           /\ run'.current_idx = run.current_idx
                           /\ run'.phase = run.phase
                      ELSE /\ run'.results =
                                 Append(run.results,
                                        [exercise |-> run.exercises[run.current_idx + 1],
                                         correct |-> correct])
                           /\ run'.current_idx = run.current_idx
                           /\ run'.phase = "next"]_vars

\* C27 witness: two exercises were graded, one right and one wrong, the
\* hint of the third was asked for and shown, and Escape ended the session
\* before the third was graded
C27_Witness ==
    /\ run.trainer = "Daily"
    /\ run.phase = "quit"
    /\ run.hint
    /\ run.current_idx = 2
    /\ Len(run.results) = 2
    /\ Len(run.exercises) > 2
    /\ run.results[1].correct # run.results[2].correct

\* C28: a step of the exercise screen either leaves the three stats maps
\* as they are or grades the exercise shown: then the entry of its key in
\* the map of its domain is the former entry, or a fresh one when there
\* was none, updated once with quality 2 for a correct answer and 0 for a
\* wrong one, and every other entry of the three maps is the same; hint
\* requests, empty submissions, Enter to continue and Escape change none
C28_OneEntryPerGrade ==
    [][/\ run.trainer = "Daily" =>
            \/ stats' = stats
            \/ /\ run.phase = "ask"
               /\ run'.results # run.results
               /\ LET d == run.exercises[run.current_idx + 1].type_name
                      k == run.exercises[run.current_idx + 1].key
                      q == IF run'.results[Len(run'.results)].correct THEN 2 ELSE 0
                      before == IF HasStats(d, k) THEN stats[d][k] ELSE SRSStats(today)
                  IN  /\ DOMAIN stats'[d] = DOMAIN stats[d] \cup {k}
                      /\ stats'[d][k] = update(before, q, today)
                      /\ \A e \in Domains :
                            /\ e # d => DOMAIN stats'[e] = DOMAIN stats[e]
                            /\ \A j \in DOMAIN stats[e] :
                                  (e # d \/ j # k) => stats'[e][j] = stats[e][j]
       /\ \A value \in {<<>>, <<" ">>, <<"h">>, <<" ", "H">>, <<"a">>, <<"h", "a">>} :
             \A correct \in BOOLEAN :
                ( /\ OnAnswerSubmitted(value, correct)
                  /\ \/ run.phase = "next"
                     \/ value \in {<<>>, <<" ">>, <<"h">>, <<" ", "H">>} )
                => stats' = stats
       /\ ActionEndSession => stats' = stats]_vars

\* C28 witness: an exercise whose key had an entry and one whose key had
\* none have been graded, one right and one wrong, while the entry of a
\* third domain is as it was stored
C28_Witness ==
    /\ run.trainer = "Daily"
    /\ run.phase = "next"
    /\ Len(run.results) = 2
    /\ run.results[1].correct # run.results[2].correct
    /\ \E d \in Domains : \E k \in DOMAIN stats[d] : stats[d][k].times_seen = 2
    /\ \E d \in Domains : \E k \in DOMAIN stats[d] :
          /\ stats[d][k].times_seen = 1
          /\ stats[d][k].last_reviewed = isoformat(today)
    /\ \E d \in Domains : \E k \in DOMAIN stats[d] :
          /\ stats[d][k] \in StoredRecords
          /\ \A i \in DOMAIN run.results : run.results[i].exercise # Exercise(d, k)

(***************************************************************************)
(* normalize_input: the backspace loop                                     *)
(***************************************************************************)
\* The characters of a typed text are "a", "b", "BS" for "\x08" and "DEL"
\* for "\x7f".  normalize_input is called on a text of up to MaxRaw
\* characters; answer.raw keeps the text and answer.user_input is the
\* variable text of the function.  The steps after the loop (NFC, removal
\* of invisible characters, strip) leave the letters a and b as they are.
InitInput ==
    /\ today = 0
    /\ items = [d \in Domains |-> <<>>]
    /\ stats = NoStats
    /\ quality = NoCall
    /\ pending = NoPrompt
    /\ selection = NoSelection
    /\ session = NoSession
    /\ saved = Files(stats)
    /\ run = NoRun
    /\ \E n \in 0..MaxRaw : \E text \in [1..n -> {"a", "b", "BS", "DEL"}] :
          answer = [NoAnswer EXCEPT !.raw = text, !.user_input = text]

\* one pass of `while "\x08" in text or "\x7f" in text`: the first "\x08"
\* goes with the character before it (alone when it is first), then the
\* first "\x7f" of what is left likewise
LoopPass ==
    LET Cut(text, c) ==
           IF c \notin Range(text) THEN text
           ELSE LET idx == IndexOf(text, c) - 1
                IN  IF idx > 0
                    THEN SubSeq(text, 1, idx - 1) \o SubSeq(text, idx + 2, Len(text))
                    ELSE Tail(text)
    IN  /\ "BS" \in Range(answer.user_input) \/ "DEL" \in Range(answer.user_input)
        /\ answer' = [answer EXCEPT !.user_input = Cut(Cut(@, "BS"), "DEL")]
        /\ UNCHANGED <<today, items, stats, quality, pending, selection, session,
                       saved, run>>

SpecInput == InitInput /\ [][LoopPass]_vars

\* C30: every pass of the loop shortens the text, so the loop ends, and
\* the text it ends with is the typed text edited from left to right, each
\* "\x08" or "\x7f" removing itself and the character before it in the
\* text as edited so far (only itself when nothing precedes it)
C30_BackspacesLikeTerminal ==
    /\ [][Len(answer'.user_input) < Len(answer.user_input)]_vars
    /\ []LET RECURSIVE Edited(_, _)
             Edited(typed, out) ==
                IF typed = <<>> THEN out
                ELSE IF Head(typed) \in {"BS", "DEL"}
                THEN Edited(Tail(typed),
                            IF out = <<>> THEN out ELSE SubSeq(out, 1, Len(out) - 1))
                ELSE Edited(Tail(typed), Append(out, Head(typed)))
         IN  ("BS" \notin Range(answer.user_input) /\ "DEL" \notin Range(answer.user_input))
                => answer.user_input = Edited(answer.raw, <<>>)

(***************************************************************************)
(* Stats files with missing or null members                                *)
(***************************************************************************)
\* the vocabulary stats file holds the record of the card with any of its
\* members left out and any of its two dates null
InitGarbled ==
    /\ today = 1
    /\ items = OneCard
    /\ stats = NoStats
    /\ quality = NoCall
    /\ pending = NoPrompt
    /\ selection = NoSelection
    /\ session = NoSession
    /\ LET card == AllKeys(OneCard, "Vocabulary")[1]
           written == json_dump(to_dict(ReviewedOnce(0, 1)))
       IN  \E kept \in SUBSET DOMAIN written :
              \E nulls \in SUBSET (kept \cap {"last_reviewed", "due_date"}) :
              saved = [Files(NoStats) EXCEPT !["Vocabulary"] =
                          (card :> [member \in kept |->
                                       IF member \in nulls THEN JsonNull
                                       ELSE written[member]])]
    /\ run = NoRun
    /\ answer = NoAnswer

\* a loader of exercise_types reads the stats file of its domain and
\* filters the keys it enumerates; `stat.due_date > today` raises TypeError
\* when the due date of an enumerated key is None
LoadFromFile(d) ==
    /\ stats' = [stats EXCEPT ![d] = load_stats(saved[d], today)]
    /\ selection' =
          IF \E k \in Range(AllKeys(items, d)) \cap DOMAIN stats'[d] :
                stats'[d][k].due_date = None
          THEN [NoSelection EXCEPT !.by = "TypeError", !.domain = d]
          ELSE LET exercises == LoadExercises(items, d, stats'[d], today)
               IN  [ by |-> "loader", domain |-> d, keys |-> AllKeys(items, d),
                     due |-> [i \in DOMAIN exercises |-> exercises[i].key] ]
    /\ UNCHANGED <<today, items, quality, pending, session, saved, run, answer>>

SpecGarbled == InitGarbled /\ [][\E d \in Domains : LoadFromFile(d)]_vars

\* C21: a record loaded from a file in which members are missing or null
\* has the default in each such member (times_seen 0, times_correct 0,
\* interval 0, ease_factor 2.5, due_date today), and the due selection
\* over the loaded map ends without an error
C21_GarbledTakesDefaults ==
    selection # NoSelection =>
       /\ selection.by # "TypeError"
       /\ LET d == selection.domain
              default == [ times_seen |-> 0, times_correct |-> 0, last_reviewed |-> None,
                           interval |-> 0, ease_factor |-> EaseInit,
                           due_date |-> isoformat(today) ]
          IN  \A k \in DOMAIN saved[d] : \A member \in DOMAIN default :
                 ( \/ member \notin DOMAIN saved[d][k]
                   \/ saved[d][k][member] = JsonNull )
                 => stats[d][k][member] = default[member]

====
